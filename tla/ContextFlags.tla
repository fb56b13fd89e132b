---------------------------- MODULE ContextFlags ----------------------------
(***************************************************************************)
(* The context_flags of a register context: its high 24 bits identify the  *)
(* CPU, and with it the structure, the low 8 bits the groups of registers  *)
(* that are filled in.  A writer fills in a context group by group, or by  *)
(* the macros *_FULL and *_ALL; a reader has only the flags to go by.      *)
(* A value of flags is the set of its bits that are set, so | is union.    *)
(***************************************************************************)
EXTENDS Naturals, FiniteSets

CONSTANT AllUsed    \* the CPUs whose contexts may be written with *_ALL

VARIABLES cpu,      \* the CPU of the context
          flags,    \* its context_flags
          groups    \* the groups of registers that have been filled in
vars == <<cpu, flags, groups>>

MD_CONTEXT_CPU_MASK == 8..31

X86   == [CPU |-> {16}, CONTROL |-> {0}, INTEGER |-> {1}, SEGMENTS |-> {2},
          FLOATING_POINT |-> {3}, DEBUG_REGISTERS |-> {4}, EXTENDED_REGISTERS |-> {5},
          XSTATE |-> {6}]
AMD64 == [CPU |-> {20}, CONTROL |-> {0}, INTEGER |-> {1}, SEGMENTS |-> {2},
          FLOATING_POINT |-> {3}, DEBUG_REGISTERS |-> {4}, XSTATE |-> {6}]
ARM   == [CPU |-> {30}, INTEGER |-> {1}, FLOATING_POINT |-> {2}]
ARM64 == [CPU |-> {22}, CONTROL |-> {0}, INTEGER |-> {1}, FLOATING_POINT |-> {2}, DEBUG |-> {3}]
ARM64_OLD == [CPU |-> {31}, INTEGER |-> {1}, FLOATING_POINT |-> {2}]
MIPS  == [CPU |-> {18}, INTEGER |-> {1}, FLOATING_POINT |-> {2}, DSP |-> {3}]
MIPS64AsMIPS == MIPS
MIPS64 == [CPU |-> {19}, INTEGER |-> {1}, FLOATING_POINT |-> {2}, DSP |-> {3}]
PPC   == [CPU |-> {29}, BASE |-> {0}, FLOATING_POINT |-> {3}, VECTOR |-> {5}]
PPC64SharingABit == [CPU |-> {24}, BASE |-> {0}, FLOATING_POINT |-> {3}, VECTOR |-> {3}]
PPC64 == [CPU |-> {24}, BASE |-> {0}, FLOATING_POINT |-> {3}, VECTOR |-> {5}]
SPARC == [CPU |-> {28}, CONTROL |-> {0}, INTEGER |-> {1}, FLOATING_POINT |-> {2}, EXTRA |-> {3}]

Context ==
    [X86 |-> X86, AMD64 |-> AMD64, ARM |-> ARM, ARM64 |-> ARM64, ARM64_OLD |-> ARM64_OLD,
     MIPS |-> MIPS, MIPS64 |-> MIPS64, PPC |-> PPC, PPC64 |-> PPC64, SPARC |-> SPARC]

Groups(c) == DOMAIN Context[c] \ {"CPU"}

(* MD_CONTEXT_<c>_<group> *)
Flag(c, group) == Context[c].CPU \cup Context[c][group]
Flags(c, gs) == UNION {Flag(c, g) : g \in gs}

(* MD_CONTEXT_<c>_FULL *)
FullGroups(c) ==
    CASE c = "X86"   -> {"CONTROL", "INTEGER", "SEGMENTS"}
      [] c = "AMD64" -> {"CONTROL", "INTEGER", "FLOATING_POINT"}
      [] c = "ARM64" -> {"CONTROL", "INTEGER", "FLOATING_POINT"}
      [] c \in {"PPC", "PPC64"} -> {"BASE"}
      [] c = "SPARC" -> {"CONTROL", "INTEGER"}
      [] OTHER       -> Groups(c)

(* MD_CONTEXT_<c>_ALL.  AMD64 takes the debug registers of X86.  The ALL   *)
(* of MIPS and MIPS64 lacks a | and is no expression.                      *)
AllGroups(c) == Groups(c) \ {"XSTATE"}
All(c) ==
    IF c = "AMD64"
    THEN Flags(c, FullGroups(c) \cup {"SEGMENTS"}) \cup Flag("X86", "DEBUG_REGISTERS")
    ELSE Flags(c, AllGroups(c))

ContextFlagsAssumption == AllUsed \subseteq DOMAIN Context \ {"MIPS", "MIPS64"}

-----------------------------------------------------------------------------
Init ==
    /\ cpu \in DOMAIN Context
    /\ flags = Context[cpu].CPU
    /\ groups = {}

FillGroup ==
    \E g \in Groups(cpu) \ groups :
        /\ flags' = flags \cup Flag(cpu, g)
        /\ groups' = groups \cup {g}
        /\ UNCHANGED cpu

FillFull ==
    /\ flags' = flags \cup Flags(cpu, FullGroups(cpu))
    /\ groups' = groups \cup FullGroups(cpu)
    /\ UNCHANGED cpu

FillAll ==
    /\ cpu \in AllUsed
    /\ flags' = flags \cup All(cpu)
    /\ groups' = groups \cup AllGroups(cpu)
    /\ UNCHANGED cpu

Next == FillGroup \/ FillFull \/ FillAll
Spec == Init /\ [][Next]_vars

-----------------------------------------------------------------------------
(* Properties *)

TypeOK ==
    /\ cpu \in DOMAIN Context
    /\ flags \subseteq 0..31
    /\ groups \subseteq Groups(cpu)

(* The high 24 bits identify the CPU: whatever groups have been filled in, *)
(* by whatever macros, exactly the CPU of the context has its bits.        *)
CpuIsIdentified ==
    {c \in DOMAIN Context : Context[c].CPU = flags \cap MD_CONTEXT_CPU_MASK} = {cpu}

(* The low 8 bits identify what is in the context: a reader takes a group  *)
(* of registers for valid exactly when it has been filled in.              *)
GroupsAreIdentified ==
    {g \in Groups(cpu) : Flag(cpu, g) \subseteq flags} = groups
=============================================================================
