----------------------------- MODULE CFIWalker -----------------------------
(***************************************************************************)
(* breakpad/include/processor/cfi_frame_info-inl.h: SimpleCFIWalker, which *)
(* finds the registers of a caller from those of its callee and the rules  *)
(* the symbol file has for the callee.                                     *)
(*                                                                         *)
(* One walk up a stack: each step is a call of FindCallerRegisters with    *)
(* the context the step before has filled in.                              *)
(***************************************************************************)
EXTENDS Integers

CONSTANTS
  RegisterMap,   \* records [name, alternate_name, callee_saves]; the
                 \* alternate name is "" for NULL
  Values,        \* values registers have
  MaxFrames      \* bound: frames of a stack

Fill == "0xda"   \* what memset leaves in every register
Names == {r.name : r \in RegisterMap}
Dictionary == {".cfa", ".ra"} \cup Names

CFIWalkerAssumption ==
  /\ \A r, q \in RegisterMap : r.name = q.name => r = q
  /\ Fill \notin Values
  /\ MaxFrames \in Nat \ {0}

VARIABLES
  context,    \* of the last frame found: register to value
  validity,   \* the registers whose flags are set in its validity
  truth,      \* what the registers really were in that frame
  frames,     \* number of frames found
  walking     \* FALSE once FindCallerRegisters has returned false

vars == <<context, validity, truth, frames, walking>>

TypeOK ==
  /\ context \in [Names -> Values \cup {Fill}]
  /\ validity \subseteq Names
  /\ truth \in [Names -> Values]
  /\ frames \in 1 .. MaxFrames
  /\ walking \in BOOLEAN

\* The context of the frame that crashed comes from the dump, complete or not.
Init ==
  /\ truth \in [Names -> Values]
  /\ validity \in SUBSET Names
  /\ context = [n \in Names |-> IF n \in validity THEN truth[n] ELSE Fill]
  /\ frames = 1 /\ walking = TRUE

\* Mutant: alternate names are not looked up.
NameInFirst(r, found) == {r.name} \cap found

\* A name of r in the dictionary: its own before the alternate one.
NameIn(r, found) ==
  IF r.name \in found THEN {r.name} ELSE {r.alternate_name} \cap found

\* CFIFrameInfo::FindCallerRegs: each rule computes the value of one name
\* from registers of the callee; it fails if it needs one it does not have,
\* and .cfa and .ra always have rules.
RuleSets == {ruled \in SUBSET Dictionary : {".cfa", ".ra"} \subseteq ruled}
FindCallerRegs(needs) == needs \subseteq validity

\* What the function that was called has done to the registers: one without
\* a rule that callees save is what it was, the others may be anything.
Callers(ruled) ==
  {t \in [Names -> Values] :
     \A r \in RegisterMap :
       r.callee_saves /\ NameIn(r, ruled) = {} => t[r.name] = truth[r.name]}

\* Mutant: a callee-saves register is taken over whatever its validity.
KeepsUnchecked(r, ruled) == NameIn(r, ruled) = {} /\ r.callee_saves

\* The register keeps what it has in the callee.
Keeps(r, ruled) ==
  NameIn(r, ruled) = {} /\ r.callee_saves /\ r.name \in validity

Found(r, ruled) == NameIn(r, ruled) # {}

\* Mutant: registers that are neither found nor kept are those of the callee.
FilledNot(r, ruled, caller) ==
  IF Found(r, ruled) THEN caller[r.name] ELSE context[r.name]

\* *caller_context, whose rules compute what is true of the caller.
Filled(r, ruled, caller) ==
  CASE Found(r, ruled) -> caller[r.name]
    [] Keeps(r, ruled) -> context[r.name]
    [] OTHER -> Fill

Register(name) == CHOOSE r \in RegisterMap : r.name = name

FindCallerRegisters(ruled, needs) ==
  /\ walking /\ frames < MaxFrames
  /\ IF FindCallerRegs(needs)
     THEN \E caller \in Callers(ruled) :
            /\ truth' = caller
            /\ context' = [n \in Names |-> Filled(Register(n), ruled, caller)]
            /\ validity' = {r.name : r \in {q \in RegisterMap : Found(q, ruled) \/ Keeps(q, ruled)}}
            /\ frames' = frames + 1
            /\ UNCHANGED walking
     ELSE walking' = FALSE /\ UNCHANGED <<context, validity, truth, frames>>

Next == \E ruled \in RuleSets, needs \in SUBSET Names : FindCallerRegisters(ruled, needs)

Spec == Init /\ [][Next]_vars
-----------------------------------------------------------------------------
\* cfi_frame_info-inl.h:96-104: however many frames up, a register that is
\* said to be valid has the value it had in that frame.
ValidMeansTrue == \A n \in validity : context[n] = truth[n]

\* A register that is not valid holds the fill pattern in every frame that was
\* computed, never the value of an inner frame that could pass for its own.
InvalidIsFilled == \A n \in Names \ validity : context[n] = Fill

\* The program counter and the stack pointer are known in every frame that
\* was computed: a walk that goes on has what it goes on with.
CanGoOn == frames > 1 =>
  \A r \in RegisterMap : r.alternate_name \in {".cfa", ".ra"} => r.name \in validity
=============================================================================
