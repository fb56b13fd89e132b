----------------------------- MODULE LineReader -----------------------------
(***************************************************************************)
(* breakpad/include/client/linux/minidump_writer/line_reader.h: a file is  *)
(* read line by line through a buffer, without stdio, in a process that    *)
(* has crashed.  The kernel gives as much of the file at once as it likes. *)
(***************************************************************************)
EXTENDS Integers, Sequences, SequencesExt, FiniteSetsExt

CONSTANTS
  Chars,         \* what a file is made of
  kMaxLineLen,
  MaxFile        \* bound: length of the file

LineReaderAssumption ==
  /\ {"newline", "NUL"} \subseteq Chars
  /\ kMaxLineLen \in Nat \ {0} /\ MaxFile \in Nat

VARIABLES
  file,
  offset,     \* of the descriptor: how much of the file has been read
  buf_,       \* its first buf_used_ characters
  hit_eof_,
  call,       \* "none", "running", or how GetNextLine has returned: "line", "false"
  len,        \* of the line
  popped      \* history: how many lines were popped

reader == <<offset, buf_, hit_eof_, len>>
vars == <<file, reader, call, popped>>

Files == UNION {[1 .. n -> Chars] : n \in 0 .. MaxFile}

TypeOK ==
  /\ file \in Files
  /\ offset \in 0 .. Len(file)
  /\ buf_ \in Seq(Chars) /\ Len(buf_) <= kMaxLineLen
  /\ hit_eof_ \in BOOLEAN
  /\ call \in {"none", "running", "line", "false"}
  /\ len \in 0 .. kMaxLineLen
  /\ popped \in 0 .. MaxFile

Init ==
  /\ file \in Files
  /\ offset = 0 /\ buf_ = << >> /\ hit_eof_ = FALSE /\ len = 0
  /\ call = "none"
  /\ popped = 0

\* Where a line may end, in a sequence of characters.
Terminators(s) == {i \in DOMAIN s : s[i] \in {"newline", "NUL"}}

EndOfFile == buf_ = << >> /\ hit_eof_ /\ call' = "false" /\ UNCHANGED reader

TerminatedLine ==
  /\ Terminators(buf_) # {}
  /\ LET i == Min(Terminators(buf_))
     IN buf_' = [buf_ EXCEPT ![i] = "NUL"] /\ len' = i - 1
  /\ call' = "line"
  /\ UNCHANGED <<offset, hit_eof_>>

\* Nothing in the buffer ends a line, and there is no room for more.
TooLong ==
  /\ Terminators(buf_) = {} /\ Len(buf_) = kMaxLineLen
  /\ call' = "false"
  /\ UNCHANGED reader

\* Mutant: what nothing ends is no line.
LastLineDropped ==
  /\ Terminators(buf_) = {} /\ hit_eof_ /\ Len(buf_) \in 1 .. kMaxLineLen - 1
  /\ buf_' = << >>
  /\ call' = "false"
  /\ UNCHANGED <<offset, len, hit_eof_>>

\* The last line of a file that does not end in a newline.
LastLine ==
  /\ Terminators(buf_) = {} /\ hit_eof_ /\ Len(buf_) \in 1 .. kMaxLineLen - 1
  /\ len' = Len(buf_)
  /\ buf_' = Append(buf_, "NUL")
  /\ call' = "line"
  /\ UNCHANGED <<offset, hit_eof_>>

\* Mutant: a short read is taken for the end of the file.
PullOnce ==
  /\ Terminators(buf_) = {} /\ Len(buf_) < kMaxLineLen /\ ~hit_eof_
  /\ \E n \in 0 .. Min({kMaxLineLen - Len(buf_), Len(file) - offset}) :
       /\ n = 0 => offset = Len(file)
       /\ buf_' = buf_ \o SubSeq(file, offset + 1, offset + n)
       /\ offset' = offset + n
       /\ hit_eof_' = (n < kMaxLineLen - Len(buf_))
  /\ UNCHANGED <<len, call>>

\* Mutant: the end of the file goes unnoticed.
PullForEver ==
  /\ Terminators(buf_) = {} /\ Len(buf_) < kMaxLineLen /\ ~hit_eof_
  /\ \E n \in 0 .. Min({kMaxLineLen - Len(buf_), Len(file) - offset}) :
       /\ n = 0 => offset = Len(file)
       /\ buf_' = buf_ \o SubSeq(file, offset + 1, offset + n)
       /\ offset' = offset + n
  /\ UNCHANGED <<len, call, hit_eof_>>

\* sys_read gives some of what is left, nothing at the end, or an error.
Pull ==
  /\ Terminators(buf_) = {} /\ Len(buf_) < kMaxLineLen /\ ~hit_eof_
  /\ \/ \E n \in 0 .. Min({kMaxLineLen - Len(buf_), Len(file) - offset}) :
          /\ n = 0 => offset = Len(file)
          /\ buf_' = buf_ \o SubSeq(file, offset + 1, offset + n)
          /\ offset' = offset + n
          /\ hit_eof_' = (n = 0)
          /\ UNCHANGED <<len, call>>
     \/ call' = "false" /\ UNCHANGED reader

\* One turn of the loop of GetNextLine.
GetNextLine ==
  /\ call = "running"
  /\ EndOfFile \/ TerminatedLine \/ TooLong \/ LastLine \/ Pull
  /\ UNCHANGED <<file, popped>>

PopLine(n) ==
  /\ buf_' = SubSeq(buf_, n + 2, Len(buf_))
  /\ popped' = popped + 1
  /\ UNCHANGED <<file, offset, hit_eof_, len>>

\* A caller asks for a line, also for the same one again, or again after
\* FALSE; it may pop a line it has got.
Call == call # "running" /\ call' = "running" /\ UNCHANGED <<file, reader, popped>>
Pop == call = "line" /\ call' = "none" /\ PopLine(len)

Next == Call \/ GetNextLine \/ Pop

Spec == Init /\ [][Next]_vars /\ WF_vars(GetNextLine)
-----------------------------------------------------------------------------
\* The lines of the file: where they end, at a terminator or behind a last
\* character that is none; how many have ended up to a place; and what is in
\* the one that ends there.
LineEnds ==
  Terminators(file)
    \cup (IF Len(file) \in {0} \cup Terminators(file) THEN {} ELSE {Len(file) + 1})
LinesUpTo[p \in 0 .. Len(file) + 1] ==
  IF p = 0 THEN 0 ELSE LinesUpTo[p - 1] + (IF p \in LineEnds THEN 1 ELSE 0)
LineAt(p) == SubSeq(file, Max({q \in {0} \cup LineEnds : q < p}) + 1, p - 1)

\* However the file comes in, what is returned is the next line of the file,
\* none twice, none left out and none cut in two.
LinesInOrder == call = "line" =>
  \E p \in LineEnds : LinesUpTo[p] = popped + 1 /\ SubSeq(buf_, 1, len) = LineAt(p)

\* At the end of the file every line has been returned, also the last one if
\* nothing ends it.  Only a line the buffer has no room for is in the way, and
\* then those before it have been returned.
NoLineLost ==
  /\ hit_eof_ /\ buf_ = << >> => popped = LinesUpTo[Len(file) + 1]
  /\ Terminators(buf_) = {} /\ Len(buf_) = kMaxLineLen =>
       \E p \in LineEnds : LinesUpTo[p] = popped + 1 /\ Len(LineAt(p)) >= kMaxLineLen

\* GetNextLine returns: it never reads again what it has, nor waits for a
\* terminator that does not come.
CallReturns == call = "running" ~> call # "running"
=============================================================================
