----------------------------- MODULE LineFilter -----------------------------
(***************************************************************************)
(* What a symbolication script promises its user: one line of output for   *)
(* each line of input, in the order of the input, until it ends well or    *)
(* gives up; it ends well only when every line has been answered, and      *)
(* gives up only at a line that may fail, or before any has been answered. *)
(***************************************************************************)
EXTENDS Naturals, Sequences

CONSTANTS Answers(_),   \* the lines that may answer a line
          MayFail(_)    \* TRUE of a line the script may fail on
VARIABLES input, output, status

Init == output = << >> /\ status = "running"

Answer ==
  /\ status = "running"
  /\ Len(output) < Len(input)
  /\ \E a \in Answers(input[Len(output) + 1]) : output' = Append(output, a)
  /\ UNCHANGED <<input, status>>

Finish ==
  /\ status = "running"
  /\ Len(output) = Len(input)
  /\ status' = "ok"
  /\ UNCHANGED <<input, output>>

GiveUp ==
  /\ status = "running"
  /\ output = << >> \/ (Len(output) < Len(input) /\ MayFail(input[Len(output) + 1]))
  /\ status' = "failed"
  /\ UNCHANGED <<input, output>>

Spec == Init /\ [][Answer \/ Finish \/ GiveUp]_<<input, output, status>>
=============================================================================
