------------------------- MODULE SymbolicateReport -------------------------
(***************************************************************************)
(* symbolicatereport.py: every line of the report is a line of the stack,  *)
(* and carries the load address of its image.                              *)
(***************************************************************************)
EXTENDS Symbolicate

CONSTANT MaxLines    \* bound: lines of the report

vars == loop

\* A report with all its lines, and the empty one that follows a final newline.
Reports == UNION {[1..n -> Lines] : n \in 1..MaxLines}

Init == LoopInit /\ stack \in Reports

\* Usage, unless there are two arguments.
Args ==
  /\ pc = "args"
  /\ \/ pc' = "list" /\ UNCHANGED status
     \/ pc' = "end" /\ status' = "failed"
  /\ UNCHANGED <<dir, dSYMs, stack, output, had>>

\* atos is given the load address of the report's first line.
LookupOnce == Symbol(Images, stack[1].base)
Lookup == Symbol(Images, Line.base)
Next ==
  \/ Args \/ List \/ Replace \/ Plain(Images) \/ Lookup
  \/ AtosFails(Images) \/ TooShort \/ End
Spec == Init /\ [][Next]_vars
-----------------------------------------------------------------------------
TypeOK == LoopTypeOK

\* The script answers every line in its turn, whatever becomes of the
\* directory, and ends well only after the last one.
Filter == INSTANCE LineFilter WITH input <- stack
AnswersEachLine == Filter!Spec

\* An answer is relative to the address the frame's own image was loaded at.
BaseIsTheFrames == \A k \in 1..Len(output) : output[k].base = output[k].line.base
=============================================================================
