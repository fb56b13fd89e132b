-------------------------- MODULE WindowsFrameInfo --------------------------
(***************************************************************************)
(* breakpad/include/processor/windows_frame_info.h: what a STACK WIN line  *)
(* of a symbol file says of the stack frames of a piece of code, and the   *)
(* block SimpleSerializer<WindowsFrameInfo> writes it into.  Of the six    *)
(* sizes two are modelled; the others are treated as these are.            *)
(***************************************************************************)
EXTENDS StaticMap

CONSTANTS
  Frames,       \* the objects
  Ints,         \* number of values of an int
  TypeNumbers,  \* numbers that stand for a type in a line
  Sizes         \* numbers that stand for a size

FrameAssumption ==
  /\ Ints \in Nat \ {0} /\ Sizes \subseteq Nat /\ TypeNumbers \subseteq Int

VALID_NONE == 0
VALID_ALL == -1
STACK_INFO_LAST == 5
STACK_INFO_UNKNOWN == -1

\* The conversions from long that an int and an unsigned int do.
AsInt(n) == ((n + Ints \div 2) % Ints) - Ints \div 2
AsUInt(n) == n % Ints

\* The last token of a line, a program or a number in hexadecimal, and what
\* strtoul makes of it.
Tokens == {"0", "1", "$T0 .raSearch ="}
Number(token) == IF token = "1" THEN 1 ELSE 0

Lines ==
  [tokens : {10, 11}, type : TypeNumbers, parameter_size : Sizes, local_size : Sizes,
   has_program_string : {0, 1}, last : Tokens]

VARIABLES
  info,   \* of each frame
  said    \* history: what the last line, copy or Clear said of it

vars == <<info, said>>

Infos ==
  [type_ : {STACK_INFO_UNKNOWN} \cup 0 .. STACK_INFO_LAST - 1, valid : {VALID_NONE, VALID_ALL},
   parameter_size : 0 .. Ints - 1, local_size : 0 .. Ints - 1,
   allocates_base_pointer : BOOLEAN, program_string : Tokens \cup {""}]

Nothing == [sizes |-> << >>, by |-> "nothing", is |-> ""]

\* What a user sees who follows the comments on the members: none of them if
\* valid says so, and only one of the last two.
Seen(i) ==
  IF i.valid = VALID_NONE THEN Nothing
  ELSE [sizes |-> <<i.parameter_size, i.local_size>>,
        by |-> IF i.program_string # "" THEN "program" ELSE "base pointer",
        is |-> IF i.program_string # "" THEN i.program_string
               ELSE IF i.allocates_base_pointer THEN "1" ELSE "0"]

\* What a line says.
Says(line) ==
  [sizes |-> <<AsUInt(line.parameter_size), AsUInt(line.local_size)>>,
   by |-> IF line.has_program_string = 1 THEN "program" ELSE "base pointer",
   is |-> IF line.has_program_string = 1 THEN line.last
          ELSE IF Number(line.last) = 1 THEN "1" ELSE "0"]

TypeOK == info \in [Frames -> Infos] /\ DOMAIN said = Frames

Unknown ==
  [type_ |-> STACK_INFO_UNKNOWN, valid |-> VALID_NONE, parameter_size |-> 0, local_size |-> 0,
   allocates_base_pointer |-> FALSE, program_string |-> ""]

Init == info = [f \in Frames |-> Unknown] /\ said = [f \in Frames |-> Nothing]

\* Mutant: the type is one too far.
ParsesToTheLast(line) == line.tokens = 11 /\ AsInt(line.type) \in 0 .. STACK_INFO_LAST

\* Lines ParseFromString does not return NULL for.
Parses(line) == line.tokens = 11 /\ AsInt(line.type) \in 0 .. STACK_INFO_LAST - 1

\* A frame is made of a line; if NULL is returned the caller keeps what it has.
ParseFromString(f, line) ==
  /\ Parses(line)
  /\ info' = [info EXCEPT ![f] =
       [type_ |-> AsInt(line.type), valid |-> VALID_ALL,
        parameter_size |-> AsUInt(line.parameter_size), local_size |-> AsUInt(line.local_size),
        allocates_base_pointer |-> line.has_program_string = 0 /\ Number(line.last) # 0,
        program_string |-> IF line.has_program_string = 1 THEN line.last ELSE ""]]
  /\ said' = [said EXCEPT ![f] = Says(line)]

\* Mutant: an empty program does not replace the one that is there.
CopyFromUnlessEmpty(f, that) ==
  /\ info' = [info EXCEPT ![f] =
       IF info[that].program_string # "" THEN info[that]
       ELSE [info[that] EXCEPT !.program_string = info[f].program_string]]
  /\ said' = [said EXCEPT ![f] = said[that]]

CopyFrom(f, that) ==
  /\ info' = [info EXCEPT ![f] = info[that]]
  /\ said' = [said EXCEPT ![f] = said[that]]

Clear(f) ==
  /\ info' = [info EXCEPT ![f].type_ = STACK_INFO_UNKNOWN, ![f].valid = VALID_NONE,
                          ![f].program_string = ""]
  /\ said' = [said EXCEPT ![f] = Nothing]

Next ==
  \/ \E f \in Frames, line \in Lines : ParseFromString(f, line)
  \/ \E f, that \in Frames : CopyFrom(f, that)
  \/ \E f \in Frames : Clear(f)

Spec == Init /\ [][Next]_vars
-----------------------------------------------------------------------------
\* The length of a program; no other program is as long.
Length(program) == CASE program = "" -> 0 [] program \in {"0", "1"} -> 1 [] OTHER -> 15

\* SizeOf and Write of SimpleSerializer<WindowsFrameInfo>.
SizeOfFrame(i) == 4 + 4 + 4 + 4 + 1 + Length(i.program_string) + 1
WriteFrame(i) ==
  <<U32(i.type_), U32(i.valid), U32(i.parameter_size), U32(i.local_size),
    Bool(i.allocates_base_pointer), String(i.program_string, Length(i.program_string))>>
-----------------------------------------------------------------------------
\* Through every sequence of lines, copies (of a frame to itself too) and
\* Clears, a user sees of a frame what was last said of it: nothing of an
\* older line shines through members that Clear or a copy leaves as they are.
SeesWhatWasSaid == \A f \in Frames : Seen(info[f]) = said[f]

\* windows_frame_info_[STACK_INFO_LAST] of the resolver: whatever number a
\* line has, a frame that was parsed has the index of one of its maps.
IndexIsInside ==
  \A f \in Frames : info[f].valid # VALID_NONE => info[f].type_ \in 0 .. STACK_INFO_LAST - 1

\* The block of a frame is as large as was allocated for it.
AllocatesWhatItWrites == \A f \in Frames : SizeOfFrame(info[f]) = Bytes(WriteFrame(info[f]))
=============================================================================
