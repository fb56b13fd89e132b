----------------------------- MODULE ByteCursor -----------------------------
(***************************************************************************)
(* breakpad/include/common/byte_cursor.h: a cursor that takes numbers,     *)
(* strings and blocks out of a buffer of bytes, and that remembers whether *)
(* all that was asked of it was there.                                     *)
(***************************************************************************)
EXTENDS Integers, Sequences, FiniteSetsExt

CONSTANTS
  Byte,        \* the values of a byte are 0 .. Byte - 1: 256 in the program
  TypeSizes,   \* sizes of the types numbers are read into
  SizeT,       \* size of a size_t: 4 or 8 in the program
  Length       \* bound: bytes in the buffer

ByteCursorAssumption ==
  /\ Byte \in {2, 4, 8, 16, 32, 64, 128, 256} /\ Length \in Nat
  /\ TypeSizes \subseteq Nat \ {0} /\ SizeT \in Nat \ {0}

Sizes == 0 .. Length + 1
Positions == 0 .. Length

VARIABLES
  buffer_,      \* its bytes
  here_, big_endian_, complete_,
  last,         \* the last operation: its name, where it began, its size and what it gave
  wanted,       \* history: where the cursor were if the buffer had no end,
                \* as far as one byte behind it
  ran_off       \* history: it has been there

cursor == <<buffer_, here_, big_endian_, complete_>>
vars == <<cursor, last, wanted, ran_off>>

\* A number, a pointer or a block is what the operation has stored, as a
\* sequence; Dummy where it stores a dummy value, NULL, or nothing at all.
Dummy == << >>
NoOperation == [name |-> "none", at |-> 0, size |-> 0, type |-> 0, signed |-> FALSE, gave |-> Dummy]

TypeOK ==
  /\ buffer_ \in [1 .. Length -> 0 .. Byte - 1]
  /\ here_ \in Positions
  /\ {big_endian_, complete_, ran_off} \subseteq BOOLEAN
  /\ last.at \in Positions /\ last.size \in Sizes /\ last.gave \in Seq(Nat)
  /\ wanted \in 0 .. Length + 1

Init ==
  /\ buffer_ \in [1 .. Length -> 0 .. Byte - 1]
  /\ here_ = 0 /\ complete_ = TRUE
  /\ big_endian_ \in BOOLEAN
  /\ last = NoOperation
  /\ wanted = 0 /\ ran_off = FALSE

Available == Length - here_

\* here_[i]
At(i) == buffer_[here_ + i + 1]

Wants(size) ==
  /\ wanted' = Min({wanted + size, Length + 1})
  /\ ran_off' = (ran_off \/ wanted' > Length)

\* Mutant: after a failure the cursor stays where it is.
TakesWhatFits(name, size, type, signed, gives) ==
  LET available == Available >= size IN
  /\ here_' = IF available THEN here_ + size ELSE here_
  /\ complete_' = (complete_ /\ available)
  /\ last' = [name |-> name, at |-> here_, size |-> size, type |-> type, signed |-> signed,
              gave |-> IF available THEN gives ELSE Dummy]
  /\ Wants(size)
  /\ UNCHANGED <<buffer_, big_endian_>>

\* Mutant: complete_ tells of the last operation only.
TakesAndForgets(name, size, type, signed, gives) ==
  LET available == Available >= size IN
  /\ here_' = IF available THEN here_ + size ELSE Length
  /\ complete_' = available
  /\ last' = [name |-> name, at |-> here_, size |-> size, type |-> type, signed |-> signed,
              gave |-> IF available THEN gives ELSE Dummy]
  /\ Wants(size)
  /\ UNCHANGED <<buffer_, big_endian_>>

\* What every operation leaves: it has taken size bytes, or CheckAvailable has
\* moved the cursor to the end.
Takes(name, size, type, signed, gives) ==
  LET available == Available >= size IN
  /\ here_' = IF available THEN here_ + size ELSE Length
  /\ complete_' = (complete_ /\ available)
  /\ last' = [name |-> name, at |-> here_, size |-> size, type |-> type, signed |-> signed,
              gave |-> IF available THEN gives ELSE Dummy]
  /\ Wants(size)
  /\ UNCHANGED <<buffer_, big_endian_>>

\* Byte^n: the values of a type of n bytes are below it.
Power[n \in Nat] == IF n = 0 THEN 1 ELSE Byte * Power[n - 1]

\* (v ^ sign_bit) - sign_bit, in a type of so many bytes.  sign_bit is a
\* size_t: the bit of a number that is longer is lost, and with it the sign.
SignExtended(v, size, type) ==
  LET sign_bit == Power[size] \div 2
      flipped == IF v % (2 * sign_bit) >= sign_bit THEN v - sign_bit ELSE v + sign_bit
  IN IF size > SizeT THEN v ELSE (flipped - sign_bit) % Power[type]

\* The loop over the bytes, in a type of so many bytes.
Value(size, type) ==
  LET v[i \in 0 .. size] ==
        IF i = 0 THEN 0
        ELSE (v[i - 1] * Byte + At(IF big_endian_ THEN i - 1 ELSE size - i)) % Power[type]
  IN v[size]

\* Mutant: the sign is lost where the type is wider than what is read.
ReadUnsigned(size, type, signed) ==
  Takes("number", size, type, signed, <<Value(IF size > Available THEN 0 ELSE size, type)>>)

\* Read(size, is_signed, result).  A signed number of no bytes is not read:
\* its sign bit would be shifted by -1.
Read(size, type, signed) ==
  LET v == Value(IF size > Available THEN 0 ELSE size, type)
  IN /\ signed => size > 0
     /\ Takes("number", size, type, signed,
              <<IF signed /\ size < type THEN SignExtended(v, size, type) ELSE v>>)

\* Read(buffer, size) and PointTo; Skip stores nothing.
ReadBlock(size) == Takes("block", size, 0, FALSE, SubSeq(buffer_, here_ + 1, here_ + size))
PointTo(size) == Takes("pointer", size, 0, FALSE, <<here_>>)
Skip(size) == Takes("skip", size, 0, FALSE, Dummy)

\* memchr(here_, 0, n), relative to here_: the first zero, or none.
Zeros(n) == {i \in 0 .. n - 1 : At(i) = 0}

\* CString(str): up to the NUL, or nothing and to the end of the buffer.
CString ==
  LET zeros == Zeros(Available)
      length == IF zeros = {} THEN Available ELSE Min(zeros)
  IN Takes("string", length + 1, 0, FALSE, SubSeq(buffer_, here_ + 1, here_ + length))

\* Mutant: the last byte of a field is always taken for its NUL.
CStringFieldWithNUL(limit) ==
  LET zeros == IF limit > Available \/ limit = 0 THEN {} ELSE Zeros(limit - 1)
      length == IF zeros = {} THEN Max({limit - 1, 0}) ELSE Min(zeros)
  IN Takes("field", limit, 0, FALSE, SubSeq(buffer_, here_ + 1, here_ + length))

\* CString(str, limit): a field of so many bytes, which need not have a NUL.
CStringField(limit) ==
  LET zeros == IF limit > Available THEN {} ELSE Zeros(limit)
      length == IF zeros = {} THEN limit ELSE Min(zeros)
  IN Takes("field", limit, 0, FALSE, SubSeq(buffer_, here_ + 1, here_ + length))

set_here(here) ==
  /\ here_' = here /\ wanted' = here
  /\ last' = NoOperation
  /\ UNCHANGED <<buffer_, big_endian_, complete_, ran_off>>

set_big_endian ==
  /\ big_endian_' = ~big_endian_
  /\ last' = NoOperation
  /\ UNCHANGED <<buffer_, here_, complete_, wanted, ran_off>>

Next ==
  \/ \E size \in Sizes :
       \/ \E type \in TypeSizes, signed \in BOOLEAN : Read(size, type, signed)
       \/ ReadBlock(size) \/ PointTo(size) \/ Skip(size) \/ CStringField(size)
  \/ CString
  \/ \E here \in Positions : set_here(here)
  \/ set_big_endian

Spec == Init /\ [][Next]_vars
-----------------------------------------------------------------------------
\* Whatever is asked, one thing after another, the cursor is where the last
\* of them has ended, or at the end of the buffer if one has run off it; a
\* small read after a large one that failed does not get bytes from between.
NothingAfterAFailure == here_ = Min({wanted, Length})

\* byte_cursor.h:108-110: the cursor is true if all prior reads have been
\* completed, and false for ever once it has run off the end.
CompleteMeansAll == complete_ <=> ~ran_off

\* The bytes of the last operation, if the buffer had all of them.
Covered == SubSeq(buffer_, last.at + 1, last.at + last.size)
Weight(i) == IF big_endian_ THEN last.size - i ELSE i - 1

\* What they mean: each counts as many times as there are values of those that
\* weigh less.
Meaning ==
  LET sum[i \in 0 .. last.size] ==
        IF i = 0 THEN 0 ELSE sum[i - 1] + Covered[i] * Power[Weight(i)]
  IN sum[last.size]

\* A number is the one its bytes mean, in either order, modulo its type; a
\* signed one that is shorter than its type keeps its sign, unless it is longer
\* than a size_t: then its bytes are read as those of an unsigned one.
NumbersAreRight == last.name = "number" =>
  LET all == last.at + last.size <= Length
      unsigned == ~last.signed \/ (SizeT < last.size /\ last.size < last.type)
      negative == ~unsigned /\ 2 * Meaning >= Power[last.size]
  IN last.gave = IF ~all THEN Dummy
                 ELSE <<(IF negative THEN Meaning - Power[last.size] ELSE Meaning) % Power[last.type]>>

\* A string ends before the first NUL of its field, and has no NUL in it; a
\* block has all its bytes or none.
StringsAreRight ==
  LET all == last.at + last.size <= Length IN
  /\ last.name \in {"string", "field"} /\ all =>
       /\ \A i \in DOMAIN last.gave : last.gave[i] = Covered[i] /\ Covered[i] # 0
       /\ Len(last.gave) < last.size => Covered[Len(last.gave) + 1] = 0
       /\ last.name = "string" => Len(last.gave) = last.size - 1
  /\ last.name = "block" => last.gave = IF all THEN Covered ELSE Dummy
=============================================================================
