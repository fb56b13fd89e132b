---------------------------- MODULE Symbolicate ----------------------------
(***************************************************************************)
(* What symbolicatereport.py and symbolicatexcode.py have in common: the   *)
(* dSYMs of the working directory are listed once, by name, and then each  *)
(* line of the stack is printed as it is or with what atos says of it.     *)
(* The directory may change under the script.                              *)
(***************************************************************************)
EXTENDS Naturals, Sequences

CONSTANTS Images,    \* names of frameworks
          Bases      \* load addresses

VARIABLES
  dir,      \* the dSYM of each name: "none", of the build that crashed, of another
  dSYMs,    \* the names that were listed
  stack,    \* the lines
  output,
  pc,       \* "args", "images" (symbolicatexcode.py only), "list", "lines", "end"
  status,   \* "running", "ok", "failed"
  had       \* history: the dSYMs each name has had since the script started

reader == <<dSYMs, stack, output, pc, status>>
loop == <<dir, reader, had>>

Builds == {"crashed", "another"}
DSYMs == Builds \cup {"none"}
\* A line that has a name and an address, one that has not, and one of too
\* few words, such as the empty line after the last newline.  The base is
\* the address its image was loaded at.
Lines == [kind : {"frame", "text", "short"}, name : Images, base : Bases]
Printed == [line : Lines, build : DSYMs, base : Bases]

LoopTypeOK ==
  /\ dir \in [Images -> DSYMs]
  /\ dSYMs \subseteq Images
  /\ stack \in Seq(Lines)
  /\ output \in Seq(Printed)
  /\ pc \in {"args", "images", "list", "lines", "end"}
  /\ status \in {"running", "ok", "failed"}
  /\ had \in [Images -> SUBSET DSYMs]

LoopInit ==
  /\ dir \in [Images -> DSYMs]
  /\ dSYMs = {}
  /\ output = << >>
  /\ pc = "args"
  /\ status = "running"
  /\ had = [n \in Images |-> {dir[n]}]

\* The user puts another dSYM in the directory, or takes one away.
Replace ==
  \E n \in Images, d \in DSYMs :
    /\ pc \in {"list", "lines"}
    /\ dir' = [dir EXCEPT ![n] = d]
    /\ had' = [had EXCEPT ![n] = @ \cup {d}]
    /\ UNCHANGED reader

\* Mutant: each name that is listed replaces the one before.
ListOne ==
  /\ pc = "list"
  /\ pc' = "lines"
  /\ \E n \in Images : dSYMs' = {n} \cap {m \in Images : dir[m] # "none"}
  /\ UNCHANGED <<dir, stack, output, status, had>>

List ==
  /\ pc = "list"
  /\ pc' = "lines"
  /\ dSYMs' = {n \in Images : dir[n] # "none"}
  /\ UNCHANGED <<dir, stack, output, status, had>>

More == pc = "lines" /\ Len(output) < Len(stack)
Line == stack[Len(output) + 1]

\* Printed as it is: a line that is not looked up.
Plain(known) ==
  /\ More
  /\ Line.kind # "short"
  /\ ~(Line.kind = "frame" /\ Line.name \in dSYMs \cap known)
  /\ output' = Append(output, [line |-> Line, build |-> "none", base |-> Line.base])
  /\ UNCHANGED <<dir, dSYMs, stack, pc, status, had>>

\* The answer is printed without the words of the line.
SymbolAlone(known, base) ==
  /\ More
  /\ Line.kind = "frame" /\ Line.name \in dSYMs \cap known
  /\ dir[Line.name] # "none"
  /\ output' = Append(output, [build |-> dir[Line.name], base |-> base])
  /\ UNCHANGED <<dir, dSYMs, stack, pc, status, had>>

\* The dSYM is any of those that were listed.
SymbolOfAny(known, base) ==
  /\ More
  /\ Line.kind = "frame" /\ Line.name \in dSYMs \cap known
  /\ \E n \in {m \in dSYMs : dir[m] # "none"} :
       output' = Append(output, [line |-> Line, build |-> dir[n], base |-> base])
  /\ UNCHANGED <<dir, dSYMs, stack, pc, status, had>>

\* Printed with the answer of atos, from the dSYM that is there now, for the
\* load address it is given.
Symbol(known, base) ==
  /\ More
  /\ Line.kind = "frame" /\ Line.name \in dSYMs \cap known
  /\ dir[Line.name] # "none"
  /\ output' = Append(output, [line |-> Line, build |-> dir[Line.name], base |-> base])
  /\ UNCHANGED <<dir, dSYMs, stack, pc, status, had>>

\* check=True: a failure of atos ends the script.
AtosFails(known) ==
  /\ More
  /\ Line.kind = "frame" /\ Line.name \in dSYMs \cap known
  /\ pc' = "end" /\ status' = "failed"
  /\ UNCHANGED <<dir, dSYMs, stack, output, had>>

\* A line of too few words is taken for the end of the stack.
StopAtShort ==
  /\ More /\ Line.kind = "short"
  /\ pc' = "end" /\ status' = "ok"
  /\ UNCHANGED <<dir, dSYMs, stack, output, had>>

\* parts[2] or parts[3] of a line that has no such word: IndexError.
TooShort ==
  /\ More /\ Line.kind = "short"
  /\ pc' = "end" /\ status' = "failed"
  /\ UNCHANGED <<dir, dSYMs, stack, output, had>>

End ==
  /\ pc = "lines" /\ Len(output) = Len(stack)
  /\ pc' = "end" /\ status' = "ok"
  /\ UNCHANGED <<dir, dSYMs, stack, output, had>>
-----------------------------------------------------------------------------
Answers(l) ==
  {a \in Printed : a.line = l /\ (a.build = "none" \/ l.kind = "frame") /\ (a.build = "none" => a.base = l.base)}

\* What may end a script before its time: a line of too few words, or atos.
MayFail(l) == l.kind \in {"short", "frame"}

\* A frame is symbolicated with a dSYM that its own name has had: another
\* build's lines are given only to frames whose own dSYM was another build's at
\* some time, whatever was replaced beside it.
FromItsOwnDSYM ==
  \A k \in 1..Len(output) :
    output[k].build # "none" => output[k].build \in had[output[k].line.name]

\* A frame whose dSYM was there all the time is not passed over.
NoneIsPassedOver(known) ==
  \A k \in 1..Len(output) :
    LET l == output[k].line
    IN l.kind = "frame" /\ l.name \in known /\ "none" \notin had[l.name] =>
         output[k].build # "none"
=============================================================================
