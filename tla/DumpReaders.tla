----------------------------- MODULE DumpReaders -----------------------------
(***************************************************************************)
(* What a dump is made of and read with: the layout of its structures, the *)
(* flags of its contexts, the cursor over its bytes, the processors its    *)
(* writer counts, and the two machines that find a caller's registers, the *)
(* evaluator of postfix expressions and the walker of CFI rules.  They do  *)
(* not share state: a behaviour is one of a single part, which.            *)
(* The proofs about the parts follow the properties, in their order.       *)
(***************************************************************************)
EXTENDS Integers, Sequences, FiniteSets, FiniteSetTheorems, TLAPS, WellFoundedInduction

CONSTANTS
  Elements,                                         \* MinidumpLayout
  AllUsed,                                          \* ContextFlags
  Byte, TypeSizes, SizeT, BufferLength,             \* ByteCursor
  kMaxCpus, kMaskWordBits, BufferSize, Numbers, MaxFile,
  Variables, Constants, EvaluatorValues, MaxLength, \* PostfixEvaluator
  Unsigned, Negated,          \* its literals, and those with a '-', without it
  Registers, MaxFrames,                             \* CFIWalker
  StackPointer, ProgramCounter, CalleeSaved, Scratch   \* names of its registers

VARIABLES
  which,
  name, writer, reader, element, member,
  cpu, flags, groups,
  buffer_, here_, big_endian_, complete_, last, wanted, ran_off,
  mask_, meant, count,
  dictionary, memory, stack, assigned, doing, answer, expression, given,
  context, validity, truth, frames, walking

layout == <<name, writer, reader, element, member>>
contexts == <<cpu, flags, groups>>
cursor == <<buffer_, here_, big_endian_, complete_, last, wanted, ran_off>>
cpus == <<mask_, meant, count>>
postfix == <<dictionary, memory, stack, assigned, doing, answer, expression, given>>
walk == <<context, validity, truth, frames, walking>>
vars == <<which, layout, contexts, cursor, cpus, postfix, walk>>

\* The five structures whose members move with the ABI are no portable ones:
\* the lists whose array of 64-bit members follows a 32-bit count, which run
\* dump_lists shows to disagree with minidump_size.h, and the 64-bit debug
\* structures, whose 64-bit members follow an odd number of 32-bit ones.
Portable(structures) ==
  structures \ {"MDRawThreadList", "MDRawModuleList", "MDRawMemoryList",
                "MDRawLinkMap64", "MDRawDebug64"}

\* The two registers every architecture has, those callees save and the others.
Register(n, alternate) ==
  [name |-> n, alternate_name |-> alternate, callee_saves |-> n \in CalleeSaved]
RegisterMap ==
  {Register(StackPointer, ".cfa"), Register(ProgramCounter, ".ra")}
    \cup {Register(n, "") : n \in (CalleeSaved \cup Scratch) \ {StackPointer, ProgramCounter}}

Types == INSTANCE MinidumpLayout WITH Structs <- {}
Layout == INSTANCE MinidumpLayout WITH Structs <- Portable(DOMAIN Types!Structure)
Contexts == INSTANCE ContextFlags
Cursor == INSTANCE ByteCursor WITH Length <- BufferLength
Cpus == INSTANCE CpuSet
Postfix == INSTANCE PostfixEvaluator WITH
  Values <- EvaluatorValues, Literals <- Unsigned \cup {-n : n \in Negated}
Walker == INSTANCE CFIWalker WITH Values <- Registers

ASSUME DumpReadersAssumption ==
  /\ Layout!LayoutAssumption /\ Contexts!ContextFlagsAssumption
  /\ Cursor!ByteCursorAssumption /\ Cpus!CpuSetAssumption
  /\ Unsigned \subseteq Nat /\ Negated \subseteq Nat
  /\ Postfix!EvaluatorAssumption /\ Walker!CFIWalkerAssumption

\* A part with several initial states has one of them where it is not looked at.
Init ==
  /\ which \in {"layout", "contexts", "cursor", "cpus", "postfix", "walk"}
  /\ which = "layout" \/ (name = "MDGUID" /\ writer = "full" /\ reader = "full")
  /\ Layout!Init
  /\ which = "contexts" \/ cpu = "X86"
  /\ Contexts!Init
  /\ which = "cursor" \/ (buffer_ = [i \in 1 .. BufferLength |-> 0] /\ big_endian_ = FALSE)
  /\ Cursor!Init
  /\ Cpus!Init
  /\ which = "postfix" \/ memory = << >>
  /\ Postfix!Init
  /\ which = "walk" \/ (validity = {} /\ truth = [r \in Walker!Names |-> "old"])
  /\ Walker!Init

On(part, step, unchanged) == IF which = part THEN step ELSE unchanged

Next ==
  /\ On("layout", Layout!Next, UNCHANGED layout)
  /\ On("contexts", Contexts!Next, UNCHANGED contexts)
  /\ On("cursor", Cursor!Next, UNCHANGED cursor)
  /\ On("cpus", Cpus!Next, UNCHANGED cpus)
  /\ On("postfix", Postfix!Next, UNCHANGED postfix)
  /\ On("walk", Walker!Next, UNCHANGED walk)
  /\ UNCHANGED which

Spec == Init /\ [][Next]_vars
-----------------------------------------------------------------------------
\* minidump_format.h and minidump_size.h: a member of a portable structure (all
\* but the five above) is read from the bytes it was written to, stepping over
\* an array cuts off no member, and MD_MISCINFO_SIZE counts in no padding,
\* whatever ABI the writer and the reader have.  context_flags tell exactly the
\* CPU of the context and the groups of registers that are filled in, by
\* whatever macros except the _ALL of AMD64, which run amd64_all refutes, and
\* those of MIPS, which do not compile.
DumpsMeanTheSameEverywhere ==
  /\ which = "layout" =>
       Layout!TypeOK /\ Layout!SamePlace /\ Layout!ElementsAreWhole /\ Layout!SizesAreUsable
  /\ which = "contexts" =>
       Contexts!TypeOK /\ Contexts!CpuIsIdentified /\ Contexts!GroupsAreIdentified

\* ByteCursor: nothing is read from between after a failure, it is true if and
\* only if all that was asked for was there, numbers are those their bytes mean
\* and strings end at the first NUL of their field.  CpuSet: the processors in
\* both files are counted, each once.
ReadersTellTheTruth ==
  /\ which = "cursor" =>
       /\ Cursor!TypeOK /\ Cursor!NothingAfterAFailure /\ Cursor!CompleteMeansAll
       /\ Cursor!NumbersAreRight /\ Cursor!StringsAreRight
  /\ which = "cpus" => Cpus!TypeOK /\ Cpus!CountsWhatTheFilesList

\* PostfixEvaluator: an expression has the value of its term, and assigned has
\* every variable that was changed, also by an expression that failed.
\* SimpleCFIWalker: in every frame a register said to be valid is right, one
\* that is not holds the fill pattern, and stack pointer and program counter
\* are known.
RecoveredRegistersAreRight ==
  /\ which = "postfix" =>
       Postfix!TypeOK /\ Postfix!ValuesAreTheTerms /\ Postfix!AssignedTellsWhatChanged
  /\ which = "walk" =>
       Walker!TypeOK /\ Walker!ValidMeansTrue /\ Walker!InvalidIsFilled /\ Walker!CanGoOn
-----------------------------------------------------------------------------
\* The tables of minidump_format.h and minidump_cpu_*.h: the bit of each CPU
\* is among the high 24, the bits of its groups among the low 8, each its own.
CpuBits ==
  /\ \A c \in DOMAIN Contexts!Context :
       \E b \in Contexts!MD_CONTEXT_CPU_MASK : Contexts!Context[c].CPU = {b}
  /\ \A c, d \in DOMAIN Contexts!Context :
       Contexts!Context[c].CPU = Contexts!Context[d].CPU => c = d

GroupBits(c) ==
  /\ \A g \in Contexts!Groups(c) : \E b \in 0 .. 7 : Contexts!Context[c][g] = {b}
  /\ \A g, h \in Contexts!Groups(c) : Contexts!Context[c][g] = Contexts!Context[c][h] => g = h

LEMMA CpusHaveBits == CpuBits
<1>1. \A c \in DOMAIN Contexts!Context :
       \E b \in Contexts!MD_CONTEXT_CPU_MASK : Contexts!Context[c].CPU = {b}
  BY DEF Contexts!Context, Contexts!MD_CONTEXT_CPU_MASK, Contexts!X86, Contexts!AMD64, Contexts!ARM,
         Contexts!ARM64, Contexts!ARM64_OLD, Contexts!MIPS, Contexts!MIPS64, Contexts!PPC,
         Contexts!PPC64, Contexts!SPARC
<1>2. \A c, d \in DOMAIN Contexts!Context :
       Contexts!Context[c].CPU = Contexts!Context[d].CPU => c = d
  BY DEF Contexts!Context, Contexts!X86, Contexts!AMD64, Contexts!ARM,
         Contexts!ARM64, Contexts!ARM64_OLD, Contexts!MIPS, Contexts!MIPS64, Contexts!PPC,
         Contexts!PPC64, Contexts!SPARC
<1> QED
  BY <1>1, <1>2 DEF CpuBits

LEMMA GroupsHaveBits == ASSUME NEW c \in DOMAIN Contexts!Context PROVE GroupBits(c)
<1> USE DEF GroupBits, Contexts!Groups
<1>1. CASE c = "X86"
  BY <1>1 DEF Contexts!Context, Contexts!X86
<1>2. CASE c = "AMD64"
  BY <1>2 DEF Contexts!Context, Contexts!AMD64
<1>3. CASE c = "ARM"
  BY <1>3 DEF Contexts!Context, Contexts!ARM
<1>4. CASE c = "ARM64"
  BY <1>4 DEF Contexts!Context, Contexts!ARM64
<1>5. CASE c = "ARM64_OLD"
  BY <1>5 DEF Contexts!Context, Contexts!ARM64_OLD
<1>6. CASE c = "MIPS"
  BY <1>6 DEF Contexts!Context, Contexts!MIPS
<1>7. CASE c = "MIPS64"
  BY <1>7 DEF Contexts!Context, Contexts!MIPS64
<1>8. CASE c = "PPC"
  BY <1>8 DEF Contexts!Context, Contexts!PPC
<1>9. CASE c = "PPC64"
  BY <1>9 DEF Contexts!Context, Contexts!PPC64
<1>10. CASE c = "SPARC"
  BY <1>10 DEF Contexts!Context, Contexts!SPARC
<1> QED
  BY <1>1, <1>2, <1>3, <1>4, <1>5, <1>6, <1>7, <1>8, <1>9, <1>10 DEF Contexts!Context

\* The macros name groups the CPU has.
LEMMA MacrosNameGroups ==
  ASSUME NEW c \in DOMAIN Contexts!Context
  PROVE  /\ Contexts!FullGroups(c) \subseteq Contexts!Groups(c)
         /\ Contexts!AllGroups(c) \subseteq Contexts!Groups(c)
<1>1. Contexts!AllGroups(c) \subseteq Contexts!Groups(c)
  BY DEF Contexts!AllGroups
<1>2. CASE c \in {"X86", "AMD64", "ARM64", "PPC", "PPC64", "SPARC"}
  BY <1>1, <1>2 DEF Contexts!FullGroups, Contexts!Groups, Contexts!Context, Contexts!X86, Contexts!AMD64,
     Contexts!ARM64, Contexts!PPC, Contexts!PPC64, Contexts!SPARC
<1>3. CASE c \notin {"X86", "AMD64", "ARM64", "PPC", "PPC64", "SPARC"}
  BY <1>1, <1>3 DEF Contexts!FullGroups
<1> QED
  BY <1>2, <1>3

\* The flags are those of the CPU and of the groups that are filled in.
ContextsIInv ==
  /\ Contexts!TypeOK
  /\ flags = Contexts!Context[cpu].CPU \cup UNION {Contexts!Context[cpu][g] : g \in groups}

LEMMA ContextsMean ==
  ASSUME ContextsIInv
  PROVE  Contexts!TypeOK /\ Contexts!CpuIsIdentified /\ Contexts!GroupsAreIdentified
<1>1. cpu \in DOMAIN Contexts!Context /\ groups \subseteq Contexts!Groups(cpu) /\ Contexts!TypeOK
  BY DEF ContextsIInv, Contexts!TypeOK
<1>2. PICK b \in 8 .. 31 : Contexts!Context[cpu].CPU = {b}
  BY <1>1, CpusHaveBits DEF CpuBits, Contexts!MD_CONTEXT_CPU_MASK
<1>3. GroupBits(cpu)
  BY <1>1, GroupsHaveBits
<1>4. \A g \in groups : \A i \in Contexts!Context[cpu][g] : i \in 0 .. 7
  BY <1>1, <1>3 DEF GroupBits
<1>5. flags \cap Contexts!MD_CONTEXT_CPU_MASK = {b}
  <2>1. \A i \in 0 .. 7 : i \notin 8 .. 31
    OBVIOUS
  <2> QED
    BY <1>2, <1>4, <2>1 DEF ContextsIInv, Contexts!MD_CONTEXT_CPU_MASK
<1>6. Contexts!CpuIsIdentified
  <2>1. \A c \in DOMAIN Contexts!Context :
          Contexts!Context[c].CPU = Contexts!Context[cpu].CPU => c = cpu
    BY <1>1, CpusHaveBits, SMTT(30) DEF CpuBits
  <2> QED
    BY <1>1, <1>2, <1>5, <2>1 DEF Contexts!CpuIsIdentified
<1>7. ASSUME NEW g \in Contexts!Groups(cpu) PROVE Contexts!Flag(cpu, g) \subseteq flags <=> g \in groups
  <2>1. CASE g \in groups
    BY <2>1 DEF Contexts!Flag, ContextsIInv
  <2>2. CASE g \notin groups
    <3>1. PICK i \in 0 .. 7 : Contexts!Context[cpu][g] = {i}
      BY <1>3 DEF GroupBits
    <3>2. \A h \in groups : Contexts!Context[cpu][h] # {i} /\ \E j : Contexts!Context[cpu][h] = {j}
      BY <1>1, <1>3, <2>2, <3>1 DEF GroupBits
    <3>3. \A h \in groups : i \notin Contexts!Context[cpu][h]
      BY <3>2
    <3>4. i # b
      OBVIOUS
    <3>5. i \notin flags
      BY <1>2, <3>3, <3>4 DEF ContextsIInv
    <3> QED
      BY <2>2, <3>1, <3>5 DEF Contexts!Flag
  <2> QED
    BY <2>1, <2>2
<1>8. Contexts!GroupsAreIdentified
  BY <1>1, <1>7 DEF Contexts!GroupsAreIdentified
<1> QED
  BY <1>1, <1>6, <1>8

\* Flags of groups that are added are what the invariant wants.
LEMMA FillKeeps ==
  ASSUME ContextsIInv, NEW more, more \subseteq Contexts!Groups(cpu),
         flags' = flags \cup Contexts!Flags(cpu, more) \/ (more = {} /\ flags' = flags),
         groups' = groups \cup more, cpu' = cpu
  PROVE  ContextsIInv'
<1>1. cpu \in DOMAIN Contexts!Context /\ groups \subseteq Contexts!Groups(cpu)
  BY DEF ContextsIInv, Contexts!TypeOK
<1>2. Contexts!Flags(cpu, more) \subseteq
        Contexts!Context[cpu].CPU \cup UNION {Contexts!Context[cpu][g] : g \in more}
  BY DEF Contexts!Flags, Contexts!Flag
<1>3. UNION {Contexts!Context[cpu][g] : g \in more} \subseteq Contexts!Flags(cpu, more)
  BY DEF Contexts!Flags, Contexts!Flag
<1>4. flags' = Contexts!Context[cpu].CPU \cup UNION {Contexts!Context[cpu][g] : g \in groups \cup more}
  BY <1>2, <1>3 DEF ContextsIInv
<1>5. flags' \subseteq 0 .. 31
  <2>1. PICK b \in 8 .. 31 : Contexts!Context[cpu].CPU = {b}
    BY <1>1, CpusHaveBits DEF CpuBits, Contexts!MD_CONTEXT_CPU_MASK
  <2>2. \A g \in groups \cup more : \E i \in 0 .. 7 : Contexts!Context[cpu][g] = {i}
    BY <1>1, GroupsHaveBits DEF GroupBits
  <2>3. \A i \in 0 .. 7 : i \in 0 .. 31
    OBVIOUS
  <2>4. b \in 0 .. 31
    OBVIOUS
  <2>5. \A g \in groups \cup more : Contexts!Context[cpu][g] \subseteq 0 .. 31
    BY <2>2, <2>3
  <2> QED
    BY <1>4, <2>1, <2>4, <2>5
<1> QED
  BY <1>1, <1>4, <1>5 DEF ContextsIInv, Contexts!TypeOK

LEMMA ContextsInductive == ASSUME "AMD64" \notin AllUsed PROVE Spec => []ContextsIInv
<1>1. Init => ContextsIInv
  <2> SUFFICES ASSUME Init PROVE ContextsIInv
    OBVIOUS
  <2>1. cpu \in DOMAIN Contexts!Context /\ flags = Contexts!Context[cpu].CPU /\ groups = {}
    BY DEF Init, Contexts!Init
  <2>2. PICK b \in 8 .. 31 : Contexts!Context[cpu].CPU = {b}
    BY <2>1, CpusHaveBits DEF CpuBits, Contexts!MD_CONTEXT_CPU_MASK
  <2>3. b \in 0 .. 31
    OBVIOUS
  <2> QED
    BY <2>1, <2>2, <2>3 DEF ContextsIInv, Contexts!TypeOK
<1>2. ContextsIInv /\ [Next]_vars => ContextsIInv'
  <2> SUFFICES ASSUME ContextsIInv, [Next]_vars PROVE ContextsIInv'
    OBVIOUS
  <2>1. cpu \in DOMAIN Contexts!Context
    BY DEF ContextsIInv, Contexts!TypeOK
  <2>2. CASE Contexts!FillGroup
    <3>1. PICK g \in Contexts!Groups(cpu) \ groups :
            flags' = flags \cup Contexts!Flag(cpu, g) /\ groups' = groups \cup {g} /\ cpu' = cpu
      BY <2>2 DEF Contexts!FillGroup
    <3>2. Contexts!Flags(cpu, {g}) = Contexts!Flag(cpu, g)
      BY DEF Contexts!Flags
    <3> QED
      BY <3>1, <3>2, FillKeeps
  <2>3. CASE Contexts!FillFull
    BY <2>1, <2>3, MacrosNameGroups, FillKeeps DEF Contexts!FillFull
  <2>4. CASE Contexts!FillAll
    <3>1. Contexts!All(cpu) = Contexts!Flags(cpu, Contexts!AllGroups(cpu))
      BY <2>4 DEF Contexts!FillAll, Contexts!All
    <3> QED
      BY <2>1, <2>4, <3>1, MacrosNameGroups, FillKeeps DEF Contexts!FillAll
  <2>5. CASE UNCHANGED contexts
    BY <2>5 DEF contexts, ContextsIInv, Contexts!TypeOK
  <2> QED
    BY <2>2, <2>3, <2>4, <2>5 DEF Next, On, vars, Contexts!Next
<1> QED
  BY <1>1, <1>2, PTL DEF Spec

\* Whatever groups of registers are filled in, by whatever macros but the ALL
\* of AMD64, context_flags tell exactly the CPU and the groups: the tables of
\* flags do not clash.
THEOREM ContextsAreTold ==
  ASSUME "AMD64" \notin AllUsed
  PROVE  Spec => [](Contexts!TypeOK /\ Contexts!CpuIsIdentified /\ Contexts!GroupsAreIdentified)
<1>1. ContextsIInv => Contexts!TypeOK /\ Contexts!CpuIsIdentified /\ Contexts!GroupsAreIdentified
  BY ContextsMean
<1> QED
  BY <1>1, ContextsInductive, PTL
-----------------------------------------------------------------------------
\* What SimpleCFIWalker always keeps.
WalkerIInv == Walker!TypeOK /\ Walker!ValidMeansTrue /\ Walker!InvalidIsFilled /\ Walker!CanGoOn

\* A register is found again by its name.
LEMMA RegisterOfName ==
  ASSUME Walker!CFIWalkerAssumption, NEW r \in RegisterMap
  PROVE  Walker!Register(r.name) = r
BY DEF Walker!CFIWalkerAssumption, Walker!Register

\* What one frame computes, register by register.
LEMMA FilledRegister ==
  ASSUME NEW r \in RegisterMap, NEW ruled, NEW caller \in Walker!Callers(ruled), WalkerIInv
  PROVE  /\ Walker!Found(r, ruled) => Walker!Filled(r, ruled, caller) = caller[r.name]
         /\ Walker!Keeps(r, ruled) => Walker!Filled(r, ruled, caller) = caller[r.name]
         /\ ~Walker!Found(r, ruled) /\ ~Walker!Keeps(r, ruled) =>
              Walker!Filled(r, ruled, caller) = Walker!Fill
         /\ caller \in [Walker!Names -> Registers]
<1>1. r.name \in Walker!Names
  BY DEF Walker!Names
<1>2. caller \in [Walker!Names -> Registers]
  BY DEF Walker!Callers
<1>3. ASSUME Walker!Keeps(r, ruled) PROVE context[r.name] = caller[r.name] /\ ~Walker!Found(r, ruled)
  <2>1. r.callee_saves /\ Walker!NameIn(r, ruled) = {} /\ r.name \in validity
    BY <1>3 DEF Walker!Keeps
  <2>2. caller[r.name] = truth[r.name]
    BY <2>1 DEF Walker!Callers
  <2>3. context[r.name] = truth[r.name]
    BY <2>1 DEF WalkerIInv, Walker!ValidMeansTrue
  <2> QED
    BY <2>1, <2>2, <2>3 DEF Walker!Found
<1>4. CASE Walker!Found(r, ruled)
  BY <1>2, <1>3, <1>4 DEF Walker!Filled
<1>5. CASE ~Walker!Found(r, ruled) /\ Walker!Keeps(r, ruled)
  BY <1>2, <1>3, <1>5 DEF Walker!Filled
<1>6. CASE ~Walker!Found(r, ruled) /\ ~Walker!Keeps(r, ruled)
  BY <1>2, <1>6 DEF Walker!Filled
<1> QED
  BY <1>4, <1>5, <1>6

\* A call that succeeds leaves a frame as true as the one before.
LEMMA FrameKeeps ==
  ASSUME Walker!CFIWalkerAssumption, WalkerIInv,
         NEW ruled \in Walker!RuleSets, NEW needs \in SUBSET Walker!Names,
         Walker!FindCallerRegisters(ruled, needs)
  PROVE  WalkerIInv'
<1>1. CASE ~Walker!FindCallerRegs(needs)
  BY <1>1 DEF Walker!FindCallerRegisters, WalkerIInv, Walker!TypeOK, Walker!ValidMeansTrue,
              Walker!InvalidIsFilled, Walker!CanGoOn
<1>2. CASE Walker!FindCallerRegs(needs)
  <2>1. PICK caller \in Walker!Callers(ruled) :
          /\ truth' = caller
          /\ context' = [n \in Walker!Names |-> Walker!Filled(Walker!Register(n), ruled, caller)]
          /\ validity' = {r.name : r \in {q \in RegisterMap :
                                            Walker!Found(q, ruled) \/ Walker!Keeps(q, ruled)}}
          /\ frames' = frames + 1 /\ walking' = walking
    BY <1>2 DEF Walker!FindCallerRegisters
  <2>2. \A r \in RegisterMap :
          /\ r.name \in Walker!Names
          /\ context'[r.name] = Walker!Filled(r, ruled, caller)
          /\ r.name \in validity' <=> (Walker!Found(r, ruled) \/ Walker!Keeps(r, ruled))
    <3>1. \A r \in RegisterMap : r.name \in Walker!Names
      BY DEF Walker!Names
    <3>2. \A r \in RegisterMap : context'[r.name] = Walker!Filled(r, ruled, caller)
      BY <2>1, <3>1, RegisterOfName
    <3>3. \A r \in RegisterMap : r.name \in validity' <=> (Walker!Found(r, ruled) \/ Walker!Keeps(r, ruled))
      BY <2>1 DEF Walker!CFIWalkerAssumption
    <3> QED
      BY <3>1, <3>2, <3>3
  <2>3. \A n \in Walker!Names : \E r \in RegisterMap : r.name = n
    BY DEF Walker!Names
  <2>4. caller \in [Walker!Names -> Registers]
    BY DEF Walker!Callers
  <2>5. /\ \A n \in validity' : context'[n] = truth'[n]
        /\ \A n \in Walker!Names \ validity' : context'[n] = Walker!Fill
        /\ \A n \in Walker!Names : context'[n] \in Registers \cup {Walker!Fill}
        /\ validity' \subseteq Walker!Names
    <3>1. validity' \subseteq Walker!Names
      BY <2>1 DEF Walker!Names
    <3>2. \A r \in RegisterMap :
            /\ r.name \in validity' => context'[r.name] = truth'[r.name]
            /\ r.name \notin validity' => context'[r.name] = Walker!Fill
      BY <2>1, <2>2, FilledRegister
    <3> QED
      BY <2>1, <2>3, <2>4, <3>1, <3>2
  <2>6. Walker!TypeOK'
    <3>1. frames' \in 1 .. MaxFrames
      BY <2>1 DEF WalkerIInv, Walker!TypeOK, Walker!FindCallerRegisters, Walker!CFIWalkerAssumption
    <3> QED
      BY <2>1, <2>4, <2>5, <3>1 DEF WalkerIInv, Walker!TypeOK
  <2>7. Walker!CanGoOn'
    <3> SUFFICES ASSUME NEW r \in RegisterMap, r.alternate_name \in {".cfa", ".ra"}
                 PROVE  r.name \in validity'
      BY DEF Walker!CanGoOn
    <3>1. Walker!Found(r, ruled)
      BY DEF Walker!RuleSets, Walker!Found, Walker!NameIn
    <3> QED
      BY <2>2, <3>1
  <2> QED
    BY <2>5, <2>6, <2>7 DEF WalkerIInv, Walker!ValidMeansTrue, Walker!InvalidIsFilled
<1> QED
  BY <1>1, <1>2

LEMMA WalkerInductive == Spec => []WalkerIInv
<1>1. Init => WalkerIInv
  BY DumpReadersAssumption
     DEF Init, Walker!Init, WalkerIInv, Walker!TypeOK, Walker!ValidMeansTrue, Walker!InvalidIsFilled,
         Walker!CanGoOn, Walker!CFIWalkerAssumption
<1>2. WalkerIInv /\ [Next]_vars => WalkerIInv'
  <2> SUFFICES ASSUME WalkerIInv, [Next]_vars PROVE WalkerIInv'
    OBVIOUS
  <2>1. CASE UNCHANGED walk
    BY <2>1 DEF walk, WalkerIInv, Walker!TypeOK, Walker!ValidMeansTrue, Walker!InvalidIsFilled, Walker!CanGoOn
  <2>2. CASE Walker!Next
    BY <2>2, FrameKeeps, DumpReadersAssumption DEF Walker!Next
  <2> QED
    BY <2>1, <2>2 DEF Next, On, vars
<1> QED
  BY <1>1, <1>2, PTL DEF Spec

\* For any values of registers, any rules and any number of frames, a register
\* that is said to be valid has the value it had in that frame, one that is
\* not has the fill pattern, not a value of an inner frame, and the program
\* counter and the stack pointer of every caller are known.
THEOREM RegistersAreRight ==
  Spec => [](Walker!TypeOK /\ Walker!ValidMeansTrue /\ Walker!InvalidIsFilled /\ Walker!CanGoOn)
BY WalkerInductive, PTL DEF WalkerIInv
-----------------------------------------------------------------------------
\* Where the cursor is and what it is worth, at every moment.
CursorIInv ==
  /\ here_ \in Cursor!Positions /\ wanted \in 0 .. BufferLength + 1
  /\ complete_ \in BOOLEAN /\ ran_off \in BOOLEAN
  /\ wanted > BufferLength => ran_off
  /\ Cursor!NothingAfterAFailure /\ Cursor!CompleteMeansAll

LEMMA MinOfTwo ==
  ASSUME NEW m \in Int, NEW n \in Int
  PROVE  Cursor!Min({m, n}) = IF m <= n THEN m ELSE n
<1>1. CASE m <= n
  BY <1>1 DEF Cursor!Min
<1>2. CASE ~(m <= n)
  BY <1>2 DEF Cursor!Min
<1> QED
  BY <1>1, <1>2

\* A set of numbers that is not empty has a least one.
LEMMA LeastNumber ==
  ASSUME NEW T \in SUBSET Nat, T # {}
  PROVE  \E x \in T : \A y \in T : x <= y
<1> DEFINE Below == {ss \in Nat \X Nat : ss[1] < ss[2]}
<1>1. IsWellFoundedOn(Below, Nat)
  BY NatLessThanWellFounded DEF OpToRel
<1>2. PICK x \in T : \A y \in T : ~ (<<y, x>> \in Below)
  <2> HIDE DEF Below
  <2> QED
    BY <1>1, WFMin
<1>3. ASSUME NEW y \in T PROVE x <= y
  <2>1. x \in Nat /\ y \in Nat
    OBVIOUS
  <2>2. ~(y < x)
    BY <1>2, <2>1
  <2> QED
    BY <2>1, <2>2
<1> QED
  BY <1>3

\* memchr finds the first zero where there is one.
LEMMA FirstIsOne ==
  ASSUME NEW T \in SUBSET Nat, T # {}
  PROVE  Cursor!Min(T) \in T
BY LeastNumber DEF Cursor!Min

\* What every operation leaves keeps the cursor where it should be, whatever
\* it has asked for.
LEMMA TakesKeeps ==
  ASSUME Cursor!ByteCursorAssumption, CursorIInv, NEW op, NEW size \in Nat, NEW type, NEW signed, NEW gives,
         Cursor!Takes(op, size, type, signed, gives)
  PROVE  CursorIInv'
<1>1. /\ BufferLength \in Nat /\ here_ \in 0 .. BufferLength /\ wanted \in 0 .. BufferLength + 1
      /\ complete_ \in BOOLEAN /\ ran_off \in BOOLEAN
      /\ (wanted > BufferLength => ran_off) /\ (complete_ <=> ~ran_off)
  BY DEF Cursor!ByteCursorAssumption, CursorIInv, Cursor!Positions, Cursor!CompleteMeansAll
<1>2. here_ = IF wanted <= BufferLength THEN wanted ELSE BufferLength
  BY <1>1, MinOfTwo DEF CursorIInv, Cursor!NothingAfterAFailure
<1>3. /\ here_' = (IF BufferLength - here_ >= size THEN here_ + size ELSE BufferLength)
      /\ complete_' = (complete_ /\ (BufferLength - here_ >= size))
      /\ wanted' = Cursor!Min({wanted + size, BufferLength + 1})
      /\ ran_off' = (ran_off \/ (wanted' > BufferLength))
  BY DEF Cursor!Takes, Cursor!Available, Cursor!Wants
<1>4. wanted' = IF wanted + size <= BufferLength + 1 THEN wanted + size ELSE BufferLength + 1
  BY <1>1, <1>3, MinOfTwo
<1>5. /\ here_' \in 0 .. BufferLength /\ wanted' \in 0 .. BufferLength + 1
      /\ here_' = IF wanted' <= BufferLength THEN wanted' ELSE BufferLength
  BY <1>1, <1>2, <1>3, <1>4
<1>6. here_' = Cursor!Min({wanted', BufferLength})
  BY <1>1, <1>5, MinOfTwo
<1>7. CASE wanted <= BufferLength
  <2>1. (BufferLength - here_ >= size) <=> ~(wanted' > BufferLength)
    BY <1>1, <1>2, <1>4, <1>7
  <2> QED
    BY <1>1, <1>3, <1>5, <1>6, <2>1
       DEF CursorIInv, Cursor!Positions, Cursor!NothingAfterAFailure, Cursor!CompleteMeansAll
<1>8. CASE wanted > BufferLength
  <2>1. ran_off /\ ~complete_ /\ ran_off' /\ ~complete_'
    BY <1>1, <1>3, <1>8
  <2> QED
    BY <1>1, <1>3, <1>5, <1>6, <2>1
       DEF CursorIInv, Cursor!Positions, Cursor!NothingAfterAFailure, Cursor!CompleteMeansAll
<1> QED
  BY <1>1, <1>7, <1>8

\* A string has a length, with a NUL or without.
LEMMA StringKeeps ==
  ASSUME Cursor!ByteCursorAssumption, CursorIInv, Cursor!CString
  PROVE  CursorIInv'
<1> DEFINE zeros == Cursor!Zeros(Cursor!Available)
           length == IF zeros = {} THEN Cursor!Available ELSE Cursor!Min(zeros)
<1>1. Cursor!Available \in Nat
  BY DEF Cursor!Available, CursorIInv, Cursor!Positions, Cursor!ByteCursorAssumption
<1>2. zeros \in SUBSET Nat
  BY <1>1 DEF Cursor!Zeros
<1>3. length \in Nat
  <2> HIDE DEF zeros
  <2> QED
    BY <1>1, <1>2, FirstIsOne
<1>4. length + 1 \in Nat
  <2> HIDE DEF length
  <2> QED
    BY <1>3
<1>5. Cursor!Takes("string", length + 1, 0, FALSE, SubSeq(buffer_, here_ + 1, here_ + length))
  BY DEF Cursor!CString
<1> HIDE DEF length
<1> QED
  BY <1>4, <1>5, TakesKeeps

LEMMA CursorNext ==
  ASSUME Cursor!ByteCursorAssumption, CursorIInv, [Cursor!Next]_cursor
  PROVE  CursorIInv'
<1>1. CASE UNCHANGED cursor
  BY <1>1 DEF cursor, CursorIInv, Cursor!NothingAfterAFailure, Cursor!CompleteMeansAll
<1>2. CASE \E size \in Cursor!Sizes :
             \/ \E type \in TypeSizes, signed \in BOOLEAN : Cursor!Read(size, type, signed)
             \/ Cursor!ReadBlock(size) \/ Cursor!PointTo(size)
             \/ Cursor!Skip(size) \/ Cursor!CStringField(size)
  <2>1. PICK size \in Cursor!Sizes :
             \/ \E type \in TypeSizes, signed \in BOOLEAN : Cursor!Read(size, type, signed)
             \/ Cursor!ReadBlock(size) \/ Cursor!PointTo(size)
             \/ Cursor!Skip(size) \/ Cursor!CStringField(size)
    BY <1>2
  <2>2. size \in Nat
    BY DEF Cursor!Sizes, Cursor!ByteCursorAssumption
  <2>3. \E op, type, signed, gives : Cursor!Takes(op, size, type, signed, gives)
    <3>1. CASE \E type \in TypeSizes, signed \in BOOLEAN : Cursor!Read(size, type, signed)
      BY <3>1 DEF Cursor!Read
    <3>2. CASE Cursor!ReadBlock(size) \/ Cursor!PointTo(size)
             \/ Cursor!Skip(size) \/ Cursor!CStringField(size)
      BY <3>2 DEF Cursor!ReadBlock, Cursor!PointTo, Cursor!Skip, Cursor!CStringField
    <3> QED
      BY <2>1, <3>1, <3>2
  <2> QED
    BY <2>2, <2>3, TakesKeeps
<1>3. CASE \E here \in Cursor!Positions : Cursor!set_here(here)
  <2>1. PICK here \in Cursor!Positions : Cursor!set_here(here)
    BY <1>3
  <2>2. here \in Int /\ BufferLength \in Int /\ here <= BufferLength /\ here >= 0
    BY DEF Cursor!Positions, Cursor!ByteCursorAssumption
  <2>3. Cursor!Min({here, BufferLength}) = here
    BY <2>2, MinOfTwo
  <2> QED
    BY <2>1, <2>2, <2>3
       DEF Cursor!set_here, CursorIInv, Cursor!Positions, Cursor!NothingAfterAFailure, Cursor!CompleteMeansAll
<1>4. CASE Cursor!set_big_endian
  BY <1>4 DEF Cursor!set_big_endian, CursorIInv, Cursor!NothingAfterAFailure, Cursor!CompleteMeansAll
<1> QED
  BY <1>1, <1>2, <1>3, <1>4, StringKeeps DEF Cursor!Next

LEMMA CursorInductive == Spec => []CursorIInv
<1>1. Init => CursorIInv
  <2> SUFFICES ASSUME Init PROVE CursorIInv
    OBVIOUS
  <2>1. BufferLength \in Nat /\ here_ = 0 /\ wanted = 0
    BY DumpReadersAssumption DEF Init, Cursor!Init, Cursor!ByteCursorAssumption
  <2>2. Cursor!Min({wanted, BufferLength}) = 0
    BY <2>1, MinOfTwo
  <2>3. 0 \in Cursor!Positions /\ 0 \in 0 .. BufferLength + 1 /\ ~(0 > BufferLength)
    BY <2>1 DEF Cursor!Positions
  <2>4. complete_ = TRUE /\ ran_off = FALSE
    BY DEF Init, Cursor!Init
  <2> QED
    BY <2>1, <2>2, <2>3, <2>4 DEF CursorIInv, Cursor!NothingAfterAFailure, Cursor!CompleteMeansAll
<1>2. CursorIInv /\ [Next]_vars => CursorIInv'
  <2> SUFFICES ASSUME CursorIInv, [Next]_vars PROVE CursorIInv'
    OBVIOUS
  <2>1. CASE UNCHANGED cursor
    BY <2>1, CursorNext, DumpReadersAssumption
  <2>2. CASE Cursor!Next
    BY <2>2, CursorNext, DumpReadersAssumption
  <2> QED
    BY <2>1, <2>2 DEF Next, On, vars
<1> QED
  BY <1>1, <1>2, PTL DEF Spec

\* Where the buffer has what an operation asks for, it has given what it says.
LEMMA TakesGives ==
  ASSUME Cursor!ByteCursorAssumption, CursorIInv, NEW op, NEW size \in Nat, NEW type, NEW signed, NEW gives,
         Cursor!Takes(op, size, type, signed, gives)
  PROVE  /\ last'.name = op /\ last'.at = here_ /\ last'.size = size /\ buffer_' = buffer_
         /\ last'.type = type /\ last'.signed = signed /\ big_endian_' = big_endian_
         /\ last'.at + last'.size <= BufferLength => here_ + size <= BufferLength /\ last'.gave = gives
         /\ ~(last'.at + last'.size <= BufferLength) => last'.gave = Cursor!Dummy
<1>1. BufferLength \in Nat /\ here_ \in Nat
  BY DEF Cursor!ByteCursorAssumption, CursorIInv, Cursor!Positions
<1>2. PICK g : /\ last' = [name |-> op, at |-> here_, size |-> size, type |-> type,
                            signed |-> signed, gave |-> g]
               /\ g = IF BufferLength - here_ >= size THEN gives ELSE Cursor!Dummy
               /\ buffer_' = buffer_ /\ big_endian_' = big_endian_
  BY DEF Cursor!Takes, Cursor!Available
<1>3. (BufferLength - here_ >= size) <=> here_ + size <= BufferLength
  BY <1>1
<1> QED
  BY <1>2, <1>3

\* What a string that was given has to do with the bytes of its field.
LEMMA StringIsRight ==
  ASSUME Cursor!ByteCursorAssumption, CursorIInv, buffer_ \in [1 .. BufferLength -> 0 .. Byte - 1],
         NEW size \in Nat, NEW length \in Nat, length <= size,
         last'.at = here_, last'.size = size, buffer_' = buffer_,
         here_ + size <= BufferLength,
         last'.gave = SubSeq(buffer_, here_ + 1, here_ + length),
         \A i \in 0 .. length - 1 : Cursor!At(i) # 0,
         length < size => Cursor!At(length) = 0
  PROVE  /\ \A i \in DOMAIN last'.gave : last'.gave[i] = Cursor!Covered'[i] /\ Cursor!Covered'[i] # 0
         /\ Len(last'.gave) = length
         /\ Len(last'.gave) < last'.size => Cursor!Covered'[Len(last'.gave) + 1] = 0
<1>1. BufferLength \in Nat /\ here_ \in Nat /\ buffer_ \in Seq(0 .. Byte - 1) /\ Len(buffer_) = BufferLength
  <2>1. BufferLength \in Nat /\ here_ \in Nat
    BY DEF Cursor!ByteCursorAssumption, CursorIInv, Cursor!Positions
  <2>2. PICK S : S = 0 .. Byte - 1
    OBVIOUS
  <2>3. buffer_ \in [1 .. BufferLength -> S]
    BY <2>2
  <2>4. buffer_ \in Seq(S) /\ Len(buffer_) = BufferLength
    BY <2>1, <2>3
  <2> QED
    BY <2>1, <2>2, <2>4
<1>2. Cursor!Covered' = SubSeq(buffer_, here_ + 1, here_ + size)
  BY DEF Cursor!Covered
<1>3. \A i \in 1 .. size : Cursor!Covered'[i] = buffer_[here_ + i]
  BY <1>1, <1>2
<1>4. /\ DOMAIN last'.gave = 1 .. length /\ Len(last'.gave) = length
      /\ \A i \in 1 .. length : last'.gave[i] = buffer_[here_ + i]
  BY <1>1
<1>5. \A i \in 1 .. length : buffer_[here_ + i] # 0
  <2> SUFFICES ASSUME NEW i \in 1 .. length PROVE buffer_[here_ + i] # 0
    OBVIOUS
  <2>1. i - 1 \in 0 .. length - 1 /\ here_ + (i - 1) + 1 = here_ + i
    BY <1>1
  <2> QED
    BY <2>1 DEF Cursor!At
<1>6. length < size => buffer_[here_ + (length + 1)] = 0 /\ length + 1 \in 1 .. size
  <2>1. here_ + length + 1 = here_ + (length + 1)
    BY <1>1
  <2> QED
    BY <2>1 DEF Cursor!At
<1>7. \A i \in 1 .. length : i \in 1 .. size
  OBVIOUS
<1>8. \A i \in DOMAIN last'.gave : last'.gave[i] = Cursor!Covered'[i] /\ Cursor!Covered'[i] # 0
  <2>1. DOMAIN last'.gave = 1 .. length
    BY <1>4
  <2>2. ASSUME NEW i \in 1 .. length
        PROVE  last'.gave[i] = Cursor!Covered'[i] /\ Cursor!Covered'[i] # 0
    <3>1. last'.gave[i] = buffer_[here_ + i] /\ buffer_[here_ + i] # 0
      BY <1>4, <1>5
    <3>2. Cursor!Covered'[i] = buffer_[here_ + i]
      BY <1>3, <1>7
    <3> QED
      BY <3>1, <3>2
  <2> QED
    BY <2>1, <2>2
<1>9. length < size => Cursor!Covered'[length + 1] = 0
  BY <1>3, <1>6
<1> QED
  BY <1>4, <1>8, <1>9

\* memchr stops at the first zero.
LEMMA FirstZero ==
  ASSUME NEW n \in Nat, Cursor!Zeros(n) # {}
  PROVE  LET first == Cursor!Min(Cursor!Zeros(n))
         IN /\ first \in 0 .. n - 1 /\ Cursor!At(first) = 0
            /\ \A i \in 0 .. first - 1 : Cursor!At(i) # 0
<1> DEFINE Z == Cursor!Zeros(n)
<1>1. Z \in SUBSET Nat /\ Z # {}
  BY DEF Cursor!Zeros
<1>2. PICK x \in Z : \A y \in Z : x <= y
  <2> HIDE DEF Z
  <2> QED
    BY <1>1, LeastNumber
<1>3. Cursor!Min(Z) \in Z /\ \A y \in Z : Cursor!Min(Z) <= y
  <2> HIDE DEF Z
  <2> QED
    BY <1>2 DEF Cursor!Min
<1>4. Cursor!Min(Z) \in 0 .. n - 1 /\ Cursor!At(Cursor!Min(Z)) = 0
  BY <1>3 DEF Cursor!Zeros
<1>5. ASSUME NEW i \in 0 .. Cursor!Min(Z) - 1 PROVE Cursor!At(i) # 0
  <2>1. i \in 0 .. n - 1 /\ ~(Cursor!Min(Z) <= i)
    BY <1>4
  <2>2. i \notin Z
    <3> HIDE DEF Z
    <3> QED
      BY <1>3, <2>1
  <2> QED
    BY <2>1, <2>2 DEF Cursor!Zeros
<1> QED
  BY <1>4, <1>5

LEMMA NoZero ==
  ASSUME NEW n \in Nat, Cursor!Zeros(n) = {}
  PROVE  \A i \in 0 .. n - 1 : Cursor!At(i) # 0
BY DEF Cursor!Zeros

LEMMA CStringIsRight ==
  ASSUME Cursor!ByteCursorAssumption, CursorIInv, buffer_ \in [1 .. BufferLength -> 0 .. Byte - 1],
         Cursor!CString
  PROVE  Cursor!StringsAreRight'
<1> DEFINE zeros == Cursor!Zeros(Cursor!Available)
           length == IF zeros = {} THEN Cursor!Available ELSE Cursor!Min(zeros)
<1>1. /\ Cursor!Available \in Nat /\ BufferLength \in Nat /\ here_ \in Nat
      /\ Cursor!Available = BufferLength - here_
  BY DEF Cursor!Available, CursorIInv, Cursor!Positions, Cursor!ByteCursorAssumption
<1>2. zeros # {} => /\ length \in 0 .. Cursor!Available - 1 /\ Cursor!At(length) = 0
                    /\ \A i \in 0 .. length - 1 : Cursor!At(i) # 0
  BY <1>1, FirstZero
<1>3. length \in Nat /\ length + 1 \in Nat /\ length <= length + 1
  <2>1. length \in Nat
    BY <1>1, <1>2
  <2> HIDE DEF length
  <2> QED
    BY <2>1
<1>4. Cursor!Takes("string", length + 1, 0, FALSE, SubSeq(buffer_, here_ + 1, here_ + length))
  BY DEF Cursor!CString
<1>5. zeros = {} => ~(here_ + (length + 1) <= BufferLength)
  BY <1>1
<1> HIDE DEF length, zeros
<1>6. /\ last'.name = "string" /\ last'.at = here_ /\ last'.size = length + 1 /\ buffer_' = buffer_
      /\ last'.at + last'.size <= BufferLength =>
           here_ + (length + 1) <= BufferLength /\ last'.gave = SubSeq(buffer_, here_ + 1, here_ + length)
  BY <1>3, <1>4, TakesGives
<1>7. CASE last'.at + last'.size <= BufferLength
  <2>1. here_ + (length + 1) <= BufferLength /\ last'.gave = SubSeq(buffer_, here_ + 1, here_ + length)
        /\ zeros # {}
    BY <1>5, <1>6, <1>7
  <2>2. /\ \A i \in DOMAIN last'.gave : last'.gave[i] = Cursor!Covered'[i] /\ Cursor!Covered'[i] # 0
        /\ Len(last'.gave) = length
        /\ Len(last'.gave) < last'.size => Cursor!Covered'[Len(last'.gave) + 1] = 0
    BY <1>2, <1>3, <1>6, <2>1, StringIsRight
  <2>3. length = (length + 1) - 1
    BY <1>3
  <2> QED
    BY <1>6, <2>2, <2>3 DEF Cursor!StringsAreRight
<1>8. CASE ~(last'.at + last'.size <= BufferLength)
  BY <1>6, <1>8 DEF Cursor!StringsAreRight
<1> QED
  BY <1>7, <1>8

LEMMA FieldIsRight ==
  ASSUME Cursor!ByteCursorAssumption, CursorIInv, buffer_ \in [1 .. BufferLength -> 0 .. Byte - 1],
         NEW limit \in Nat, Cursor!CStringField(limit)
  PROVE  Cursor!StringsAreRight'
<1> DEFINE zeros == IF limit > Cursor!Available THEN {} ELSE Cursor!Zeros(limit)
           length == IF zeros = {} THEN limit ELSE Cursor!Min(zeros)
<1>1. /\ BufferLength \in Nat /\ here_ \in Nat /\ Cursor!Available = BufferLength - here_
  BY DEF Cursor!Available, CursorIInv, Cursor!Positions, Cursor!ByteCursorAssumption
<1>2. here_ + limit <= BufferLength =>
        /\ length \in 0 .. limit
        /\ length < limit => Cursor!At(length) = 0
        /\ \A i \in 0 .. length - 1 : Cursor!At(i) # 0
  <2> SUFFICES ASSUME here_ + limit <= BufferLength
               PROVE  /\ length \in 0 .. limit
                      /\ length < limit => Cursor!At(length) = 0
                      /\ \A i \in 0 .. length - 1 : Cursor!At(i) # 0
    OBVIOUS
  <2>1. zeros = Cursor!Zeros(limit)
    BY <1>1
  <2>2. CASE zeros = {}
    BY <2>1, <2>2, NoZero
  <2>3. CASE zeros # {}
    BY <2>1, <2>3, FirstZero
  <2> QED
    BY <2>2, <2>3
<1>3. Cursor!Takes("field", limit, 0, FALSE, SubSeq(buffer_, here_ + 1, here_ + length))
  BY DEF Cursor!CStringField
<1> HIDE DEF length, zeros
<1>4. /\ last'.name = "field" /\ last'.at = here_ /\ last'.size = limit /\ buffer_' = buffer_
      /\ last'.at + last'.size <= BufferLength =>
           here_ + limit <= BufferLength /\ last'.gave = SubSeq(buffer_, here_ + 1, here_ + length)
  BY <1>3, TakesGives
<1>5. CASE last'.at + last'.size <= BufferLength
  <2>1. here_ + limit <= BufferLength /\ last'.gave = SubSeq(buffer_, here_ + 1, here_ + length)
    BY <1>4, <1>5
  <2>2. length \in Nat /\ length <= limit
    BY <1>2, <2>1
  <2>3. /\ \A i \in DOMAIN last'.gave : last'.gave[i] = Cursor!Covered'[i] /\ Cursor!Covered'[i] # 0
        /\ Len(last'.gave) < last'.size => Cursor!Covered'[Len(last'.gave) + 1] = 0
    BY <1>2, <1>4, <2>1, <2>2, StringIsRight
  <2> QED
    BY <1>4, <2>3 DEF Cursor!StringsAreRight
<1>6. CASE ~(last'.at + last'.size <= BufferLength)
  BY <1>4, <1>6 DEF Cursor!StringsAreRight
<1> QED
  BY <1>5, <1>6

\* After every operation.
LEMMA NextGivesStrings ==
  ASSUME Cursor!ByteCursorAssumption, CursorIInv, buffer_ \in [1 .. BufferLength -> 0 .. Byte - 1],
         Cursor!Next
  PROVE  Cursor!StringsAreRight' /\ buffer_' = buffer_
<1>1. ASSUME NEW size \in Nat, NEW op, NEW type, NEW signed, NEW gives,
             Cursor!Takes(op, size, type, signed, gives), op \notin {"string", "field", "block"}
      PROVE  Cursor!StringsAreRight'
  <2>1. last'.name \notin {"string", "field", "block"}
    BY <1>1, TakesGives
  <2> QED
    BY <2>1 DEF Cursor!StringsAreRight
<1>2. ASSUME NEW size \in Nat, Cursor!ReadBlock(size) PROVE Cursor!StringsAreRight'
  <2>1. Cursor!Takes("block", size, 0, FALSE, SubSeq(buffer_, here_ + 1, here_ + size))
    BY <1>2 DEF Cursor!ReadBlock
  <2>2. /\ last'.name = "block" /\ last'.at = here_ /\ last'.size = size /\ buffer_' = buffer_
        /\ last'.at + last'.size <= BufferLength => last'.gave = SubSeq(buffer_, here_ + 1, here_ + size)
        /\ ~(last'.at + last'.size <= BufferLength) => last'.gave = Cursor!Dummy
    BY <2>1, TakesGives
  <2>3. Cursor!Covered' = SubSeq(buffer_, here_ + 1, here_ + size)
    BY <2>2 DEF Cursor!Covered
  <2> QED
    BY <2>2, <2>3 DEF Cursor!StringsAreRight
<1>3. ASSUME last' = Cursor!NoOperation PROVE Cursor!StringsAreRight'
  BY <1>3 DEF Cursor!StringsAreRight, Cursor!NoOperation
<1>4. \A size \in Cursor!Sizes : size \in Nat
  BY DEF Cursor!Sizes, Cursor!ByteCursorAssumption
<1>5. ASSUME \E size \in Cursor!Sizes :
             \/ \E type \in TypeSizes, signed \in BOOLEAN : Cursor!Read(size, type, signed)
             \/ Cursor!ReadBlock(size) \/ Cursor!PointTo(size)
             \/ Cursor!Skip(size) \/ Cursor!CStringField(size)
      PROVE  Cursor!StringsAreRight'
  <2>1. PICK size \in Cursor!Sizes :
             \/ \E type \in TypeSizes, signed \in BOOLEAN : Cursor!Read(size, type, signed)
             \/ Cursor!ReadBlock(size) \/ Cursor!PointTo(size)
             \/ Cursor!Skip(size) \/ Cursor!CStringField(size)
    BY <1>5
  <2>0. size \in Nat
    BY <1>4
  <2>2. CASE \E type \in TypeSizes, signed \in BOOLEAN : Cursor!Read(size, type, signed)
    <3>1. \E type, signed, gives : Cursor!Takes("number", size, type, signed, gives)
      BY <2>2 DEF Cursor!Read
    <3> QED
      BY <1>1, <2>0, <3>1
  <2>3. CASE Cursor!ReadBlock(size)
    BY <1>2, <2>0, <2>3
  <2>4. CASE Cursor!PointTo(size) \/ Cursor!Skip(size)
    BY <1>1, <2>0, <2>4 DEF Cursor!PointTo, Cursor!Skip
  <2>5. CASE Cursor!CStringField(size)
    BY <2>0, <2>5, FieldIsRight
  <2> QED
    BY <2>1, <2>2, <2>3, <2>4, <2>5
<1>6. ASSUME \E here \in Cursor!Positions : Cursor!set_here(here) PROVE Cursor!StringsAreRight'
  BY <1>3, <1>6 DEF Cursor!set_here
<1>7. ASSUME Cursor!set_big_endian PROVE Cursor!StringsAreRight'
  BY <1>3, <1>7 DEF Cursor!set_big_endian
<1>8. Cursor!StringsAreRight'
  BY <1>5, <1>6, <1>7, CStringIsRight DEF Cursor!Next
<1>9. buffer_' = buffer_
  BY DEF Cursor!Next, Cursor!Read, Cursor!ReadBlock, Cursor!PointTo, Cursor!Skip, Cursor!CStringField,
         Cursor!CString, Cursor!Takes, Cursor!set_here, Cursor!set_big_endian
<1> QED
  BY <1>8, <1>9

LEMMA StringsInductive ==
  Spec => [](buffer_ \in [1 .. BufferLength -> 0 .. Byte - 1] /\ Cursor!StringsAreRight)
<1> DEFINE Strings == buffer_ \in [1 .. BufferLength -> 0 .. Byte - 1] /\ Cursor!StringsAreRight
<1>1. Init => Strings
  BY DEF Init, Cursor!Init, Cursor!StringsAreRight, Cursor!NoOperation
<1>2. CursorIInv /\ Strings /\ [Next]_vars => Strings'
  <2> SUFFICES ASSUME CursorIInv, Strings, [Next]_vars PROVE Strings'
    OBVIOUS
  <2>1. CASE UNCHANGED cursor
    BY <2>1 DEF cursor, Cursor!StringsAreRight, Cursor!Covered
  <2>2. CASE Cursor!Next
    BY <2>2, NextGivesStrings, DumpReadersAssumption
  <2> QED
    BY <2>1, <2>2 DEF Next, On, vars
<1> HIDE DEF Strings
<1>3. Spec => []Strings
  BY <1>1, <1>2, CursorInductive, PTL DEF Spec
<1> QED
  BY <1>3 DEF Strings

-----------------------------------------------------------------------------
\* What holds at the beginning and goes on holds always.
LEMMA HoldsAlways ==
  ASSUME NEW P \in SUBSET Nat, 0 \in P, \A n \in Nat : n \in P => n + 1 \in P
  PROVE  \A n \in Nat : n \in P
<1> SUFFICES ASSUME Nat \ P # {} PROVE FALSE
  OBVIOUS
<1>1. PICK n \in Nat \ P : \A k \in Nat \ P : n <= k
  BY LeastNumber, Zenon
<1>2. n # 0 /\ n \in Nat /\ n - 1 \in Nat /\ n - 1 \in P /\ (n - 1) + 1 = n
  BY <1>1
<1> QED
  BY <1>1, <1>2

\* A function that is defined by recursion exists.
Recurs(f, S, x, G) ==
  f \in [Nat -> S] /\ f[0] = x /\ \A n \in Nat : f[n + 1] = G[n][f[n]]

LEMMA Recursion ==
  ASSUME NEW S, NEW x \in S, NEW G \in [Nat -> [S -> S]]
  PROVE  \E f : Recurs(f, S, x, G)
<1> DEFINE Of(n) == {g \in [0 .. n -> S] : g[0] = x /\ \A i \in 1 .. n : g[i] = G[i - 1][g[i - 1]]}
           Begun == {n \in Nat : Of(n) # {}}
<1>1. 0 \in Begun
  <2>1. [i \in 0 .. 0 |-> x] \in Of(0)
    OBVIOUS
  <2> QED
    BY <2>1
<1>2. ASSUME NEW n \in Nat, n \in Begun PROVE n + 1 \in Begun
  <2>1. PICK g \in [0 .. n -> S] : g[0] = x /\ \A i \in 1 .. n : g[i] = G[i - 1][g[i - 1]]
    BY <1>2
  <2> DEFINE h == [i \in 0 .. n + 1 |-> IF i = n + 1 THEN G[n][g[n]] ELSE g[i]]
  <2>0. g[n] \in S /\ G[n] \in [S -> S]
    BY <2>1
  <2>2. h \in [0 .. n + 1 -> S]
    BY <2>0, <2>1
  <2>3. h[0] = x
    BY <2>1
  <2>4. ASSUME NEW i \in 1 .. n + 1 PROVE h[i] = G[i - 1][h[i - 1]]
    <3>1. i - 1 \in 0 .. n /\ i \in 0 .. n + 1
      OBVIOUS
    <3>2. CASE i = n + 1
      BY <3>1, <3>2
    <3>3. CASE i # n + 1
      BY <2>1, <3>1, <3>3
    <3> QED
      BY <3>2, <3>3
  <2> HIDE DEF h
  <2>5. h \in Of(n + 1)
    BY <2>2, <2>3, <2>4
  <2> HIDE DEF Of
  <2> QED
    BY <2>5
<1>3. \A n \in Nat : n \in Begun
  <2>1. Begun \in SUBSET Nat /\ \A n \in Nat : n \in Begun => n + 1 \in Begun
    BY <1>2
  <2> HIDE DEF Begun
  <2> QED
    BY <1>1, <2>1, HoldsAlways
<1> DEFINE of == [n \in Nat |-> CHOOSE g \in Of(n) : TRUE]
<1>4. \A n \in Nat : of[n] \in Of(n)
  BY <1>3, Zenon
<1> HIDE DEF of
<1>5. \A n \in Nat : of[n] \in [0 .. n -> S] /\ of[n][0] = x
  BY <1>4
<1>6. \A n \in Nat : \A i \in 1 .. n : of[n][i] = G[i - 1][of[n][i - 1]]
  BY <1>4
<1>7. ASSUME NEW n \in Nat PROVE of[n + 1][n] = of[n][n]
  <2> DEFINE Alike == {i \in Nat : i <= n => of[n + 1][i] = of[n][i]}
  <2>1. Alike \in SUBSET Nat /\ 0 \in Alike
    BY <1>5
  <2>2. ASSUME NEW i \in Nat, i \in Alike PROVE i + 1 \in Alike
    <3> SUFFICES ASSUME i + 1 <= n PROVE of[n + 1][i + 1] = of[n][i + 1]
      OBVIOUS
    <3>1. i + 1 \in 1 .. n /\ i + 1 \in 1 .. n + 1 /\ (i + 1) - 1 = i /\ i <= n /\ n + 1 \in Nat
      OBVIOUS
    <3>2. of[n + 1][i] = of[n][i]
      BY <2>2, <3>1
    <3>3. of[n + 1][i + 1] = G[i][of[n + 1][i]] /\ of[n][i + 1] = G[i][of[n][i]]
      BY <1>6, <3>1
    <3> QED
      BY <3>2, <3>3
  <2>3. n \in Alike
    <3> HIDE DEF Alike
    <3> QED
      BY <2>1, <2>2, HoldsAlways
  <2> QED
    BY <2>3
<1> DEFINE f == [n \in Nat |-> of[n][n]]
<1>8. f \in [Nat -> S] /\ f[0] = x
  <2>1. \A n \in Nat : of[n][n] \in S
    BY <1>5
  <2> QED
    BY <1>5, <2>1
<1>9. ASSUME NEW n \in Nat PROVE f[n + 1] = G[n][f[n]]
  <2>1. n + 1 \in Nat /\ n + 1 \in 1 .. n + 1 /\ (n + 1) - 1 = n
    OBVIOUS
  <2>2. of[n + 1][n + 1] = G[n][of[n + 1][n]]
    BY <1>6, <2>1
  <2>3. f[n + 1] = of[n + 1][n + 1] /\ f[n] = of[n][n]
    BY <2>1
  <2> QED
    BY <1>7, <2>2, <2>3
<1> HIDE DEF f
<1> QED
  BY <1>8, <1>9 DEF Recurs

\* Byte^n.
LEMMA Powers ==
  ASSUME Cursor!ByteCursorAssumption
  PROVE  /\ Cursor!Power \in [Nat -> Nat \ {0}]
         /\ Cursor!Power[0] = 1 /\ \A n \in Nat : Cursor!Power[n + 1] = Byte * Cursor!Power[n]
<1> DEFINE P == Cursor!Power
           S == Nat \ {0}
           Steps(h) == [n \in Nat |-> IF n = 0 THEN 1 ELSE Byte * h[n - 1]]
<1>1. PICK g : g \in [Nat -> S] /\ g[0] = 1 /\ \A n \in Nat : g[n + 1] = Byte * g[n]
  <2> DEFINE G == [n \in Nat |-> [s \in S |-> Byte * s]]
  <2>1. \A s \in S : Byte * s \in S
    BY DEF Cursor!ByteCursorAssumption
  <2>2. G \in [Nat -> [S -> S]] /\ 1 \in S
    BY <2>1
  <2>3. \A n \in Nat : \A s \in S : G[n][s] = Byte * s
    OBVIOUS
  <2> HIDE DEF G, S
  <2>4. PICK g : Recurs(g, S, 1, G)
    BY <2>2, Recursion, Zenon
  <2> QED
    BY <2>3, <2>4 DEF Recurs
<1>2. g = Steps(g)
  <2>1. \A n \in Nat : g[n] = IF n = 0 THEN 1 ELSE Byte * g[n - 1]
    <3> SUFFICES ASSUME NEW n \in Nat, n # 0 PROVE g[n] = Byte * g[n - 1]
      BY <1>1
    <3>1. n - 1 \in Nat /\ (n - 1) + 1 = n
      OBVIOUS
    <3> QED
      BY <1>1, <3>1
  <2> QED
    BY <1>1, <2>1
<1>3. P = CHOOSE h : h = Steps(h)
  BY DEF Cursor!Power
<1>4. P = Steps(P)
  <2> HIDE DEF Steps, P
  <2> QED
    BY <1>2, <1>3
<1> HIDE DEF P
<1>5. P[0] = 1 /\ DOMAIN P = Nat
  BY <1>4
<1>6. \A n \in Nat : P[n + 1] = Byte * P[n]
  <2> SUFFICES ASSUME NEW n \in Nat PROVE P[n + 1] = Byte * P[n]
    OBVIOUS
  <2>1. n + 1 \in Nat /\ n + 1 # 0 /\ (n + 1) - 1 = n
    OBVIOUS
  <2>2. P[n + 1] = IF n + 1 = 0 THEN 1 ELSE Byte * P[(n + 1) - 1]
    BY <1>4, <2>1
  <2> QED
    BY <2>1, <2>2
<1>7. \A n \in Nat : P[n] \in S
  <2> DEFINE Good == {n \in Nat : P[n] \in S}
  <2>1. Byte \in Nat /\ Byte > 0
    BY DEF Cursor!ByteCursorAssumption
  <2>2. \A s \in S : Byte * s \in S
    BY <2>1
  <2>3. Good \in SUBSET Nat /\ 0 \in Good /\ \A n \in Nat : n \in Good => n + 1 \in Good
    BY <1>5, <1>6, <2>2
  <2> HIDE DEF Good
  <2>4. \A n \in Nat : n \in Good
    BY <2>3, HoldsAlways
  <2> QED
    BY <2>4 DEF Good
<1>8. P = [n \in Nat |-> P[n]]
  BY <1>4
<1> QED
  BY <1>5, <1>6, <1>7, <1>8 DEF P
-----------------------------------------------------------------------------
\* Division with a remainder.
LEMMA Division ==
  ASSUME NEW m \in Nat \ {0}, NEW x \in Int
  PROVE  /\ x % m \in 0 .. m - 1 /\ x \div m \in Int
         /\ x = m * (x \div m) + (x % m)
OBVIOUS

\* There is one remainder.
LEMMA OneRemainder ==
  ASSUME NEW m \in Nat \ {0}, NEW q \in Int, NEW r \in 0 .. m - 1
  PROVE  (m * q + r) % m = r
<1> DEFINE x == m * q + r
           k == x \div m
           s == x % m
<1>1. x \in Int /\ m \in Int /\ m > 0 /\ k \in Int /\ s \in 0 .. m - 1 /\ m * q + r = m * k + s
  <2>1. m * q \in Int /\ x \in Int
    OBVIOUS
  <2>2. x % m \in 0 .. m - 1 /\ x \div m \in Int /\ x = m * (x \div m) + (x % m)
    <3> HIDE DEF x
    <3> QED
      BY <2>1, Division
  <2> QED
    BY <2>1, <2>2
<1> HIDE DEF k, s
<1>2. CASE q = k
  BY <1>1, <1>2 DEF s
<1>3. CASE q > k
  <2>1. m * q >= m * k + m
    <3>1. PICK d \in Nat : q = k + 1 + d
      <4>1. q - k - 1 \in Nat /\ q = k + 1 + (q - k - 1)
        BY <1>1, <1>3
      <4> QED
        BY <4>1
    <3>2. m * (k + 1 + d) = m * k + m + m * d /\ m * d \in Nat /\ m * k \in Int
      BY <1>1
    <3> QED
      BY <1>1, <3>1, <3>2
  <2> QED
    BY <1>1, <2>1
<1>4. CASE q < k
  <2>1. m * k >= m * q + m
    <3>1. PICK d \in Nat : k = q + 1 + d
      <4>1. k - q - 1 \in Nat /\ k = q + 1 + (k - q - 1)
        BY <1>1, <1>4
      <4> QED
        BY <4>1
    <3>2. m * (q + 1 + d) = m * q + m + m * d /\ m * d \in Nat /\ m * q \in Int
      BY <1>1
    <3> QED
      BY <1>1, <3>1, <3>2
  <2> QED
    BY <1>1, <2>1
<1> QED
  BY <1>1, <1>2, <1>3, <1>4

\* Whole multiples do not change the remainder.
LEMMA SameRemainder ==
  ASSUME NEW m \in Nat \ {0}, NEW x \in Int, NEW q \in Int
  PROVE  (x + m * q) % m = x % m
<1> DEFINE k == x \div m
           r == x % m
<1>1. r \in 0 .. m - 1 /\ k \in Int /\ x = m * k + r
  BY Division
<1> HIDE DEF k, r
<1>2. m * k + r + m * q = m * (k + q) + r
  BY <1>1
<1>3. (m * (k + q) + r) % m = r
  BY <1>1, OneRemainder
<1> QED
  BY <1>1, <1>2, <1>3 DEF r

\* A step of the loop over the bytes, in a type that is too small.
LEMMA StepModulo ==
  ASSUME NEW m \in Nat \ {0}, NEW x \in Int, NEW b \in Int, NEW c \in Int
  PROVE  ((x % m) * b + c) % m = (x * b + c) % m
<1> DEFINE k == x \div m
           r == x % m
<1>1. r \in Int /\ k \in Int /\ x = m * k + r
  BY Division
<1> HIDE DEF k, r
<1>2. (r * b + c) + m * (k * b) = x * b + c /\ r * b + c \in Int /\ k * b \in Int
  BY <1>1
<1>3. ((r * b + c) + m * (k * b)) % m = (r * b + c) % m
  BY <1>2, SameRemainder
<1> QED
  BY <1>2, <1>3 DEF r

LEMMA Distributes ==
  ASSUME NEW x \in Int, NEW y \in Int, NEW z \in Int, NEW p \in Int
  PROVE  x * (y * p) + z * p = (x * y + z) * p
OBVIOUS

\* A number of one digit more is below a power of one more.
LEMMA DigitBelow ==
  ASSUME NEW x \in Nat, NEW y \in Nat, NEW p \in Nat, x < p, NEW b \in 0 .. y - 1
  PROVE  x * y + b < y * p
<1>1. PICK d \in Nat : p = x + 1 + d
  <2>1. p - x - 1 \in Nat /\ p = x + 1 + (p - x - 1)
    OBVIOUS
  <2> QED
    BY <2>1
<1>2. y * (x + 1 + d) = x * y + y + y * d /\ y * d \in Nat /\ x * y \in Nat
  OBVIOUS
<1>3. PICK u \in Nat, v \in Nat : u = x * y /\ v = y * d
  BY <1>2
<1>4. y * p = u + y + v
  BY <1>1, <1>2, <1>3
<1> QED
  BY <1>3, <1>4

LEMMA PowerSteps ==
  ASSUME Cursor!ByteCursorAssumption
  PROVE  /\ Cursor!Power \in [Nat -> Nat] /\ Cursor!Power[0] = 1 /\ Byte \in Nat
         /\ \A d \in Nat : Cursor!Power[d] \in Nat /\ Cursor!Power[d + 1] = Byte * Cursor!Power[d]
BY Powers DEF Cursor!ByteCursorAssumption

\* Powers multiply.
LEMMA PowersMultiply ==
  ASSUME Cursor!ByteCursorAssumption, NEW m \in Nat, NEW n \in Nat
  PROVE  Cursor!Power[m + n] = Cursor!Power[m] * Cursor!Power[n]
<1> DEFINE P == Cursor!Power
           Good == {d \in Nat : P[m + d] = P[m] * P[d]}
<1>1. /\ P \in [Nat -> Nat] /\ P[0] = 1 /\ Byte \in Nat
      /\ \A d \in Nat : P[d] \in Nat /\ P[d + 1] = Byte * P[d]
  BY PowerSteps, Zenon
<1> HIDE DEF P
<1>2. Good \in SUBSET Nat /\ 0 \in Good
  BY <1>1
<1>3. ASSUME NEW d \in Nat, d \in Good PROVE d + 1 \in Good
  <2>1. P[m + d] = P[m] * P[d] /\ m + (d + 1) = (m + d) + 1 /\ m + d \in Nat
    BY <1>3
  <2>2. P[m + (d + 1)] = Byte * (P[m] * P[d]) /\ P[d + 1] = Byte * P[d] /\ P[m] \in Nat /\ P[d] \in Nat
    BY <1>1, <2>1
  <2>3. Byte * (P[m] * P[d]) = P[m] * (Byte * P[d])
    BY <1>1, <2>2
  <2> QED
    BY <2>2, <2>3
<1>4. n \in Good
  <2> HIDE DEF Good
  <2> QED
    BY <1>2, <1>3, HoldsAlways
<1> QED
  BY <1>4 DEF P

\* Half the numbers of some bytes have their sign bit.
LEMMA SignBit ==
  ASSUME Cursor!ByteCursorAssumption, NEW n \in Nat \ {0}
  PROVE  Cursor!Power[n] \div 2 \in Nat /\ Cursor!Power[n] = 2 * (Cursor!Power[n] \div 2)
<1>1. n - 1 \in Nat /\ n = (n - 1) + 1
  OBVIOUS
<1>2. Cursor!Power[n] = Byte * Cursor!Power[n - 1] /\ Cursor!Power[n - 1] \in Nat
  BY <1>1, Powers
<1>3. PICK half \in Nat : Byte = 2 * half
  <2>1. \A k \in {1, 2, 4, 8, 16, 32, 64, 128} : k \in Nat
    OBVIOUS
  <2>2. \E k \in {1, 2, 4, 8, 16, 32, 64, 128} : Byte = 2 * k
    BY DEF Cursor!ByteCursorAssumption
  <2> QED
    BY <2>1, <2>2
<1>4. PICK q \in Nat : q = half * Cursor!Power[n - 1]
  BY <1>2
<1>5. Cursor!Power[n] = 2 * q
  BY <1>2, <1>3, <1>4
<1>6. (2 * q) \div 2 = q
  OBVIOUS
<1> QED
  BY <1>5, <1>6

\* What the bytes c mean, and what the loop computes.
Weighs(n, big, i) == IF big THEN n - i ELSE i - 1
Sums(w, c, n, big) ==
  /\ w \in [0 .. n -> Nat] /\ w[0] = 0
  /\ \A i \in 1 .. n : w[i] = w[i - 1] + c[i] * Cursor!Power[Weighs(n, big, i)]
Loops(h, c, n, big) ==
  /\ h \in [0 .. n -> Nat] /\ h[0] = 0
  /\ \A i \in 1 .. n : h[i] = h[i - 1] * Byte + c[IF big THEN i ELSE n - i + 1]

\* The loop takes the bytes from the one that weighs most.
LEMMA LoopBound ==
  ASSUME Cursor!ByteCursorAssumption, NEW n \in Nat, NEW c \in [1 .. n -> 0 .. Byte - 1],
         NEW big \in BOOLEAN, NEW h, Loops(h, c, n, big)
  PROVE  h[n] < Cursor!Power[n]
<1> DEFINE P == Cursor!Power
           Good == {i \in Nat : i <= n => h[i] < P[i]}
<1>1. /\ P \in [Nat -> Nat] /\ P[0] = 1 /\ Byte \in Nat
      /\ \A d \in Nat : P[d] \in Nat /\ P[d + 1] = Byte * P[d]
  BY PowerSteps, Zenon
<1> HIDE DEF P
<1>2. Good \in SUBSET Nat /\ 0 \in Good
  <2>1. h[0] = 0 /\ P[0] = 1
    BY <1>1 DEF Loops
  <2> QED
    BY <2>1
<1>3. ASSUME NEW i \in Nat, i \in Good PROVE i + 1 \in Good
  <2> SUFFICES ASSUME i + 1 <= n PROVE h[i + 1] < P[i + 1]
    OBVIOUS
  <2>1. i + 1 \in 1 .. n /\ (i + 1) - 1 = i /\ i \in 0 .. n /\ i <= n
        /\ (IF big THEN i + 1 ELSE n - (i + 1) + 1) \in 1 .. n
    OBVIOUS
  <2>2. PICK b \in 0 .. Byte - 1 : h[i + 1] = h[i] * Byte + b
    BY <2>1 DEF Loops
  <2>3. h[i] \in Nat /\ P[i] \in Nat /\ h[i] < P[i]
    BY <1>1, <1>3, <2>1 DEF Loops
  <2>4. h[i] * Byte + b < Byte * P[i]
    BY <1>1, <2>3, DigitBelow
  <2> QED
    BY <1>1, <2>2, <2>4
<1>4. n \in Good
  <2> HIDE DEF Good
  <2> QED
    BY <1>2, <1>3, HoldsAlways
<1> QED
  BY <1>4 DEF P

LEMMA BigEndian ==
  ASSUME Cursor!ByteCursorAssumption, NEW n \in Nat, NEW c \in [1 .. n -> 0 .. Byte - 1],
         NEW h, Loops(h, c, n, TRUE), NEW w, Sums(w, c, n, TRUE)
  PROVE  h[n] = w[n]
<1> DEFINE P == Cursor!Power
           Good == {i \in Nat : i <= n => w[i] = h[i] * P[n - i]}
<1>1. /\ P \in [Nat -> Nat] /\ P[0] = 1 /\ Byte \in Nat
      /\ \A d \in Nat : P[d] \in Nat /\ P[d + 1] = Byte * P[d]
  BY PowerSteps, Zenon
<1> HIDE DEF P
<1>2. Good \in SUBSET Nat /\ 0 \in Good
  <2>1. h[0] = 0 /\ w[0] = 0 /\ n - 0 = n /\ P[n] \in Nat
    BY <1>1 DEF Loops, Sums
  <2>2. 0 * P[n] = 0
    BY <2>1
  <2> QED
    BY <2>1, <2>2
<1>3. ASSUME NEW i \in Nat, i \in Good PROVE i + 1 \in Good
  <2> SUFFICES ASSUME i + 1 <= n PROVE w[i + 1] = h[i + 1] * P[n - (i + 1)]
    OBVIOUS
  <2>1. i + 1 \in 1 .. n /\ (i + 1) - 1 = i /\ i \in 0 .. n /\ i <= n
        /\ n - (i + 1) \in Nat /\ n - i = (n - (i + 1)) + 1
    OBVIOUS
  <2>2. PICK b \in Nat : b = c[i + 1]
    BY <1>1, <2>1
  <2>3. PICK p \in Nat : p = P[n - (i + 1)]
    BY <1>1, <2>1
  <2>4. P[n - i] = Byte * p
    BY <1>1, <2>1, <2>3
  <2>5. h[i + 1] = h[i] * Byte + b /\ h[i] \in Nat
    BY <2>1, <2>2 DEF Loops
  <2>6. w[i + 1] = w[i] + b * p
    BY <2>1, <2>2, <2>3 DEF Sums, Weighs, P
  <2>7. w[i] = h[i] * (Byte * p)
    BY <1>3, <2>1, <2>4
  <2>8. h[i] * (Byte * p) + b * p = (h[i] * Byte + b) * p
    <3>1. PICK g \in Nat : g = h[i]
      BY <2>5
    <3>2. Byte \in Nat
      BY <1>1
    <3>3. g * (Byte * p) + b * p = (g * Byte + b) * p
      BY <3>2, Distributes
    <3> QED
      BY <3>1, <3>3
  <2> QED
    BY <2>3, <2>5, <2>6, <2>7, <2>8
<1>4. n \in Good
  <2> HIDE DEF Good
  <2> QED
    BY <1>2, <1>3, HoldsAlways
<1>5. n - n = 0 /\ h[n] \in Nat /\ h[n] * 1 = h[n]
  <2>1. h[n] \in Nat
    BY DEF Loops
  <2> QED
    BY <2>1
<1>6. w[n] = h[n] * P[n - n]
  BY <1>4
<1> QED
  BY <1>1, <1>5, <1>6

LEMMA LittleEndian ==
  ASSUME Cursor!ByteCursorAssumption, NEW n \in Nat, NEW c \in [1 .. n -> 0 .. Byte - 1],
         NEW h, Loops(h, c, n, FALSE), NEW w, Sums(w, c, n, FALSE)
  PROVE  h[n] = w[n]
<1> DEFINE P == Cursor!Power
           Good == {i \in Nat : i <= n => h[i] * P[n - i] + w[n - i] = w[n]}
<1>1. /\ P \in [Nat -> Nat] /\ P[0] = 1 /\ Byte \in Nat
      /\ \A d \in Nat : P[d] \in Nat /\ P[d + 1] = Byte * P[d]
  BY PowerSteps, Zenon
<1> HIDE DEF P
<1>2. Good \in SUBSET Nat /\ 0 \in Good
  <2>1. h[0] = 0 /\ n - 0 = n /\ w[n] \in Nat /\ P[n] \in Nat
    BY <1>1 DEF Loops, Sums
  <2>2. 0 * P[n] + w[n] = w[n]
    BY <2>1
  <2> QED
    BY <2>1, <2>2
<1>3. ASSUME NEW i \in Nat, i \in Good PROVE i + 1 \in Good
  <2> SUFFICES ASSUME i + 1 <= n PROVE h[i + 1] * P[n - (i + 1)] + w[n - (i + 1)] = w[n]
    OBVIOUS
  <2> DEFINE k == n - (i + 1)
  <2>1. i + 1 \in 1 .. n /\ (i + 1) - 1 = i /\ i \in 0 .. n /\ i <= n
        /\ k \in Nat /\ k \in 0 .. n /\ n - i = k + 1 /\ k + 1 \in 1 .. n /\ (k + 1) - 1 = k
    OBVIOUS
  <2> HIDE DEF k
  <2>2. PICK b \in Nat : b = c[k + 1]
    BY <1>1, <2>1
  <2>3. PICK p \in Nat : p = P[k]
    BY <1>1, <2>1
  <2>4. P[n - i] = Byte * p
    BY <1>1, <2>1, <2>3
  <2>5. h[i + 1] = h[i] * Byte + b /\ h[i] \in Nat
    <3>1. n - (i + 1) + 1 = k + 1
      BY DEF k
    <3> QED
      BY <2>1, <2>2, <3>1 DEF Loops
  <2>6. w[n - i] = w[k] + b * p /\ w[k] \in Nat
    <3>1. w[k + 1] = w[(k + 1) - 1] + c[k + 1] * P[(k + 1) - 1]
      BY <2>1 DEF Sums, Weighs, P
    <3>2. w[k] \in Nat
      BY <2>1 DEF Sums
    <3> QED
      BY <2>1, <2>2, <2>3, <3>1, <3>2
  <2>7. h[i] * (Byte * p) + (w[k] + b * p) = w[n]
    BY <1>3, <2>1, <2>4, <2>6
  <2>8. h[i] * (Byte * p) + (w[k] + b * p) = (h[i] * Byte + b) * p + w[k]
    <3>0. PICK g \in Nat : g = h[i]
      BY <2>5
    <3>4. Byte \in Nat
      BY <1>1
    <3>1. PICK x \in Int, y \in Int : x = g * (Byte * p) /\ y = b * p
      BY <3>4
    <3>2. x + y = (g * Byte + b) * p
      BY <3>1, <3>4, Distributes
    <3>3. x + (w[k] + y) = (x + y) + w[k]
      BY <2>6, <3>1
    <3> QED
      BY <3>0, <3>1, <3>2, <3>3
  <2> QED
    BY <2>3, <2>5, <2>7, <2>8 DEF k
<1>4. n \in Good
  <2> HIDE DEF Good
  <2> QED
    BY <1>2, <1>3, HoldsAlways
<1>5. n - n = 0 /\ h[n] \in Nat /\ w[0] = 0 /\ w[n] \in Nat
  BY DEF Loops, Sums
<1>6. h[n] * P[n - n] + w[n - n] = w[n]
  BY <1>4
<1>7. h[n] * 1 + 0 = h[n]
  BY <1>5
<1> QED
  BY <1>1, <1>5, <1>6, <1>7

LEMMA LoopsExist ==
  ASSUME Cursor!ByteCursorAssumption, NEW n \in Nat, NEW c \in [1 .. n -> 0 .. Byte - 1], NEW big \in BOOLEAN
  PROVE  \E h : Loops(h, c, n, big)
<1> DEFINE byte(k) == IF k < n THEN c[IF big THEN k + 1 ELSE n - k] ELSE 0
           G == [k \in Nat |-> [s \in Nat |-> s * Byte + byte(k)]]
<1>1. Byte \in Nat
  BY DEF Cursor!ByteCursorAssumption
<1>2. \A k \in Nat : byte(k) \in Nat
  <2> SUFFICES ASSUME NEW k \in Nat, k < n PROVE c[IF big THEN k + 1 ELSE n - k] \in Nat
    OBVIOUS
  <2>1. (IF big THEN k + 1 ELSE n - k) \in 1 .. n
    OBVIOUS
  <2>2. \A i \in 1 .. n : c[i] \in Nat
    BY <1>1
  <2> QED
    BY <2>1, <2>2
<1> HIDE DEF byte
<1>3. G \in [Nat -> [Nat -> Nat]]
  <2>1. \A k \in Nat : \A s \in Nat : s * Byte + byte(k) \in Nat
    <3> SUFFICES ASSUME NEW k \in Nat, NEW s \in Nat PROVE s * Byte + byte(k) \in Nat
      OBVIOUS
    <3>1. PICK x \in Nat : x = s * Byte
      BY <1>1
    <3>2. PICK y \in Nat : y = byte(k)
      BY <1>2
    <3> QED
      BY <3>1, <3>2
  <2> QED
    BY <2>1
<1>4. \A k \in Nat : \A s \in Nat : G[k][s] = s * Byte + byte(k)
  OBVIOUS
<1> HIDE DEF G
<1>5. PICK f : Recurs(f, Nat, 0, G)
  BY <1>3, Recursion
<1> DEFINE h == [i \in 0 .. n |-> f[i]]
<1>6. h \in [0 .. n -> Nat] /\ h[0] = 0
  <2>1. f \in [Nat -> Nat] /\ f[0] = 0
    BY <1>5 DEF Recurs
  <2> QED
    BY <2>1
<1>7. ASSUME NEW i \in 1 .. n PROVE h[i] = h[i - 1] * Byte + c[IF big THEN i ELSE n - i + 1]
  <2>1. i - 1 \in Nat /\ (i - 1) + 1 = i /\ i - 1 < n /\ n - (i - 1) = n - i + 1
        /\ i \in 0 .. n /\ i - 1 \in 0 .. n
    OBVIOUS
  <2>2. byte(i - 1) = c[IF big THEN i ELSE n - i + 1]
    BY <2>1 DEF byte
  <2>3. f[i] = G[i - 1][f[i - 1]] /\ f[i - 1] \in Nat
    BY <1>5, <2>1 DEF Recurs
  <2>4. f[i] = f[i - 1] * Byte + byte(i - 1)
    BY <1>4, <2>1, <2>3
  <2> QED
    BY <2>1, <2>2, <2>4
<1> HIDE DEF h
<1> QED
  BY <1>6, <1>7 DEF Loops

LEMMA SumsExist ==
  ASSUME Cursor!ByteCursorAssumption, NEW n \in Nat, NEW c \in [1 .. n -> 0 .. Byte - 1], NEW big \in BOOLEAN
  PROVE  \E w : Sums(w, c, n, big)
<1> DEFINE term(k) == IF k < n THEN c[k + 1] * Cursor!Power[Weighs(n, big, k + 1)] ELSE 0
           G == [k \in Nat |-> [s \in Nat |-> s + term(k)]]
<1>1. \A k \in Nat : term(k) \in Nat
  <2> SUFFICES ASSUME NEW k \in Nat, k < n PROVE c[k + 1] * Cursor!Power[Weighs(n, big, k + 1)] \in Nat
    OBVIOUS
  <2>1. k + 1 \in 1 .. n /\ Weighs(n, big, k + 1) \in Nat
    BY DEF Weighs
  <2>2. c[k + 1] \in Nat
    <3>1. Byte \in Nat
      BY PowerSteps
    <3>2. c[k + 1] \in 0 .. Byte - 1
      BY <2>1
    <3> QED
      BY <3>1, <3>2
  <2>3. Cursor!Power[Weighs(n, big, k + 1)] \in Nat
    BY <2>1, PowerSteps
  <2> QED
    BY <2>2, <2>3
<1> HIDE DEF term
<1>3. G \in [Nat -> [Nat -> Nat]]
  <2>1. ASSUME NEW k \in Nat PROVE [s \in Nat |-> s + term(k)] \in [Nat -> Nat]
    <3>1. PICK t \in Nat : t = term(k)
      BY <1>1
    <3>2. [s \in Nat |-> s + t] \in [Nat -> Nat]
      OBVIOUS
    <3> QED
      BY <3>1, <3>2
  <2> QED
    BY <2>1
<1>4. \A k \in Nat : \A s \in Nat : G[k][s] = s + term(k)
  OBVIOUS
<1> HIDE DEF G
<1>5. PICK f : Recurs(f, Nat, 0, G)
  BY <1>3, Recursion
<1> DEFINE w == [i \in 0 .. n |-> f[i]]
<1>6. w \in [0 .. n -> Nat] /\ w[0] = 0
  <2>1. f \in [Nat -> Nat] /\ f[0] = 0
    BY <1>5 DEF Recurs
  <2> QED
    BY <2>1
<1>7. ASSUME NEW i \in 1 .. n PROVE w[i] = w[i - 1] + c[i] * Cursor!Power[Weighs(n, big, i)]
  <2>1. i - 1 \in Nat /\ (i - 1) + 1 = i /\ i - 1 < n /\ i \in 0 .. n /\ i - 1 \in 0 .. n
    OBVIOUS
  <2>2. term(i - 1) = c[i] * Cursor!Power[Weighs(n, big, i)]
    BY <2>1 DEF term
  <2>3. f[i] = G[i - 1][f[i - 1]] /\ f[i - 1] \in Nat
    BY <1>5, <2>1 DEF Recurs
  <2>4. f[i] = f[i - 1] + term(i - 1)
    BY <1>4, <2>1, <2>3
  <2> QED
    BY <2>1, <2>2, <2>4
<1> HIDE DEF w
<1> QED
  BY <1>6, <1>7 DEF Sums

\* The bytes of an operation.
Bytes(buffer, at, n) == [i \in 1 .. n |-> buffer[at + i]]

LEMMA BytesAreBytes ==
  ASSUME Cursor!ByteCursorAssumption, NEW b \in [1 .. BufferLength -> 0 .. Byte - 1],
         NEW at \in Nat, NEW n \in Nat, at + n <= BufferLength
  PROVE  Bytes(b, at, n) \in [1 .. n -> 0 .. Byte - 1]
<1>1. \A i \in 1 .. n : at + i \in 1 .. BufferLength
  BY DEF Cursor!ByteCursorAssumption
<1> QED
  BY <1>1 DEF Bytes

\* The loop in a type of so many bytes.
LEMMA ValueIs ==
  ASSUME Cursor!ByteCursorAssumption, buffer_ \in [1 .. BufferLength -> 0 .. Byte - 1],
         here_ \in Nat, big_endian_ \in BOOLEAN, NEW n \in Nat, here_ + n <= BufferLength,
         NEW type \in Nat, NEW h, Loops(h, Bytes(buffer_, here_, n), n, big_endian_)
  PROVE  Cursor!Value(n, type) = h[n] % Cursor!Power[type]
<1> DEFINE c == Bytes(buffer_, here_, n)
           at(i) == IF big_endian_ THEN i - 1 ELSE n - i
           M == Cursor!Power[type]
           F(v) == [i \in 0 .. n |-> IF i = 0 THEN 0 ELSE (v[i - 1] * Byte + Cursor!At(at(i))) % M]
           g == CHOOSE v : v = F(v)
           u == [i \in 0 .. n |-> h[i] % M]
<1>1. Byte \in Nat /\ M \in Nat \ {0}
  BY Powers, PowerSteps
<1>2. ASSUME NEW i \in 1 .. n
      PROVE  /\ Cursor!At(at(i)) \in Int /\ i - 1 \in 0 .. n /\ h[i - 1] \in Int
             /\ h[i] = h[i - 1] * Byte + Cursor!At(at(i))
  <2>1. at(i) + 1 \in 1 .. n /\ at(i) + 1 = (IF big_endian_ THEN i ELSE n - i + 1)
        /\ at(i) \in Int /\ i - 1 \in 0 .. n
    OBVIOUS
  <2>2. here_ + at(i) + 1 = here_ + (at(i) + 1)
    BY <2>1
  <2>3. Cursor!At(at(i)) = c[at(i) + 1]
    <3> HIDE DEF at
    <3> QED
      BY <2>1, <2>2 DEF Cursor!At, Bytes
  <2>4. c[at(i) + 1] \in Int
    <3>1. c \in [1 .. n -> 0 .. Byte - 1]
      BY BytesAreBytes
    <3>2. c[at(i) + 1] \in 0 .. Byte - 1
      <4> HIDE DEF c, at
      <4> QED
        BY <2>1, <3>1
    <3> HIDE DEF c, at
    <3> QED
      BY <1>1, <3>2
  <2>5. h[i - 1] \in Int /\ h[i] = h[i - 1] * Byte + c[at(i) + 1]
    <3>1. Loops(h, c, n, big_endian_)
      OBVIOUS
    <3> HIDE DEF c, at
    <3>2. h[i] = h[i - 1] * Byte + c[IF big_endian_ THEN i ELSE n - i + 1] /\ h \in [0 .. n -> Nat]
      BY <3>1 DEF Loops
    <3>3. h[i - 1] \in Nat
      BY <2>1, <3>2
    <3> QED
      BY <2>1, <3>2, <3>3
  <2> HIDE DEF c, at
  <2> QED
    BY <2>1, <2>3, <2>4, <2>5
<1> HIDE DEF c, at, M
<1>3. ASSUME NEW i \in 1 .. n PROVE ((h[i - 1] % M) * Byte + Cursor!At(at(i))) % M = h[i] % M
  <2>1. PICK x \in Int, y \in Int : x = h[i - 1] /\ y = Cursor!At(at(i))
    BY <1>2
  <2>2. ((x % M) * Byte + y) % M = (x * Byte + y) % M
    <3>1. M \in Nat \ {0} /\ Byte \in Int
      BY <1>1
    <3> QED
      BY <3>1, StepModulo
  <2>3. h[i] = x * Byte + y
    BY <1>2, <2>1
  <2> QED
    BY <2>1, <2>2, <2>3
<1>4. 0 % M = 0 /\ h[0] = 0
  <2>1. h[0] = 0
    BY DEF Loops
  <2> QED
    BY <1>1, <2>1
<1>5. u = F(u)
  <2>1. ASSUME NEW i \in 0 .. n
        PROVE  u[i] = IF i = 0 THEN 0 ELSE (u[i - 1] * Byte + Cursor!At(at(i))) % M
    <3>1. CASE i = 0
      BY <1>4, <3>1
    <3>2. CASE i # 0
      <4>1. i \in 1 .. n /\ i - 1 \in 0 .. n
        BY <3>2
      <4>2. u[i] = h[i] % M /\ u[i - 1] = h[i - 1] % M
        BY <4>1
      <4> QED
        BY <1>3, <3>2, <4>1, <4>2
    <3> QED
      BY <3>1, <3>2
  <2>2. PICK f : f = u
    OBVIOUS
  <2>3. f = [i \in 0 .. n |-> f[i]]
    BY <2>2
  <2>4. \A i \in 0 .. n : f[i] = IF i = 0 THEN 0 ELSE (f[i - 1] * Byte + Cursor!At(at(i))) % M
    <3> HIDE DEF u
    <3> QED
      BY <2>1, <2>2
  <2>5. f = F(f)
    BY <2>3, <2>4
  <2> QED
    BY <2>2, <2>5
<1>6. g = F(g)
  <2> HIDE DEF F, u
  <2> QED
    BY <1>5
<1>7. Cursor!Value(n, type) = g[n]
  BY DEF Cursor!Value, at, M
<1> HIDE DEF g
<1>8. g[0] = 0 /\ \A i \in 1 .. n : g[i] = (g[i - 1] * Byte + Cursor!At(at(i))) % M
  <2>1. \A i \in 0 .. n : g[i] = IF i = 0 THEN 0 ELSE (g[i - 1] * Byte + Cursor!At(at(i))) % M
    BY <1>6
  <2>2. 0 \in 0 .. n /\ \A i \in 1 .. n : i \in 0 .. n /\ i # 0
    OBVIOUS
  <2> QED
    BY <2>1, <2>2
<1> DEFINE Good == {i \in Nat : i <= n => g[i] = h[i] % M}
<1>9. Good \in SUBSET Nat /\ 0 \in Good
  BY <1>4, <1>8
<1>10. ASSUME NEW i \in Nat, i \in Good PROVE i + 1 \in Good
  <2> SUFFICES ASSUME i + 1 <= n PROVE g[i + 1] = h[i + 1] % M
    OBVIOUS
  <2>1. i + 1 \in 1 .. n /\ (i + 1) - 1 = i /\ i <= n
    OBVIOUS
  <2>2. g[i] = h[i] % M
    BY <1>10, <2>1
  <2>3. g[i + 1] = (g[i] * Byte + Cursor!At(at(i + 1))) % M
    BY <1>8, <2>1
  <2>4. ((h[i] % M) * Byte + Cursor!At(at(i + 1))) % M = h[i + 1] % M
    BY <1>3, <2>1
  <2> QED
    BY <2>2, <2>3, <2>4
<1>11. n \in Good
  <2> HIDE DEF Good
  <2> QED
    BY <1>9, <1>10, HoldsAlways
<1> QED
  BY <1>7, <1>11 DEF M

\* What they mean.
MeaningOf(b, l, big) ==
  LET covered == SubSeq(b, l.at + 1, l.at + l.size)
      sum[i \in 0 .. l.size] ==
        IF i = 0 THEN 0
        ELSE sum[i - 1] + covered[i] * Cursor!Power[IF big THEN l.size - i ELSE i - 1]
  IN sum[l.size]

LEMMA MeaningIsOf ==
  /\ Cursor!Meaning = MeaningOf(buffer_, last, big_endian_)
  /\ Cursor!Meaning' = MeaningOf(buffer_', last', big_endian_')
BY DEF Cursor!Meaning, Cursor!Covered, Cursor!Weight, MeaningOf

LEMMA MeaningIs ==
  ASSUME Cursor!ByteCursorAssumption, NEW b \in [1 .. BufferLength -> 0 .. Byte - 1],
         NEW l, l.at \in Nat, l.size \in Nat, l.at + l.size <= BufferLength, NEW big \in BOOLEAN,
         NEW w, Sums(w, Bytes(b, l.at, l.size), l.size, big)
  PROVE  MeaningOf(b, l, big) = w[l.size]
<1> DEFINE n == l.size
           c == Bytes(b, l.at, n)
           s == SubSeq(b, l.at + 1, l.at + n)
           F(v) == [i \in 0 .. n |->
                      IF i = 0 THEN 0
                      ELSE v[i - 1] + s[i] * Cursor!Power[IF big THEN n - i ELSE i - 1]]
           g == CHOOSE v : v = F(v)
<1>1. \A i \in 1 .. n : s[i] = c[i]
  <2>1. BufferLength \in Nat /\ l.at + 1 \in 1 .. BufferLength + 1 /\ l.at + n \in Nat
    BY DEF Cursor!ByteCursorAssumption
  <2>2. PICK S : S = 0 .. Byte - 1
    OBVIOUS
  <2>3. b \in [1 .. BufferLength -> S]
    BY <2>2
  <2>4. b \in Seq(S) /\ Len(b) = BufferLength
    BY <2>1, <2>3
  <2>5. PICK at \in Nat, m \in Nat : at = l.at /\ m = n
    OBVIOUS
  <2>6. at + m <= Len(b)
    BY <2>4, <2>5
  <2>7. \A i \in 1 .. m : SubSeq(b, at + 1, at + m)[i] = b[at + i]
    <3> HIDE DEF n, s
    <3> QED
      BY <2>4, <2>6
  <2> QED
    BY <2>5, <2>7 DEF Bytes
<1> HIDE DEF s, c
<1>2. n \in Nat /\ w \in [0 .. n -> Nat] /\ w[0] = 0
      /\ \A i \in 1 .. n : w[i] = w[i - 1] + s[i] * Cursor!Power[IF big THEN n - i ELSE i - 1]
  BY <1>1 DEF Sums, Weighs, c
<1>3. w = F(w)
  <2>1. ASSUME NEW i \in 0 .. n
        PROVE  w[i] = IF i = 0 THEN 0
                      ELSE w[i - 1] + s[i] * Cursor!Power[IF big THEN n - i ELSE i - 1]
    <3>1. CASE i = 0
      BY <1>2, <3>1
    <3>2. CASE i # 0
      <4>1. i \in 1 .. n
        BY <1>2, <3>2
      <4> QED
        BY <1>2, <3>2, <4>1
    <3> QED
      BY <3>1, <3>2
  <2> QED
    BY <1>2, <2>1
<1>4. g = F(g)
  <2> HIDE DEF F
  <2> QED
    BY <1>3
<1>5. MeaningOf(b, l, big) = g[n]
  BY DEF MeaningOf, s
<1> HIDE DEF g
<1>6. g[0] = 0 /\ \A i \in 1 .. n : g[i] = g[i - 1] + s[i] * Cursor!Power[IF big THEN n - i ELSE i - 1]
  <2>1. \A i \in 0 .. n :
          g[i] = IF i = 0 THEN 0 ELSE g[i - 1] + s[i] * Cursor!Power[IF big THEN n - i ELSE i - 1]
    BY <1>4
  <2>2. 0 \in 0 .. n /\ \A i \in 1 .. n : i \in 0 .. n /\ i # 0
    BY <1>2
  <2> QED
    BY <2>1, <2>2
<1> DEFINE Good == {i \in Nat : i <= n => g[i] = w[i]}
<1>7. Good \in SUBSET Nat /\ 0 \in Good
  BY <1>2, <1>6
<1>8. ASSUME NEW i \in Nat, i \in Good PROVE i + 1 \in Good
  <2> SUFFICES ASSUME i + 1 <= n PROVE g[i + 1] = w[i + 1]
    OBVIOUS
  <2>1. i + 1 \in 1 .. n /\ (i + 1) - 1 = i /\ i <= n
    BY <1>2
  <2>2. g[i] = w[i]
    BY <1>8, <2>1
  <2> QED
    BY <1>2, <1>6, <2>1, <2>2
<1>9. n \in Good
  <2> HIDE DEF Good, n
  <2> QED
    BY <1>2, <1>7, <1>8, HoldsAlways
<1> QED
  BY <1>5, <1>9

\* The number that some bytes mean, in a wider type or a narrower one.
SignIsLost(n, type, signed) == ~signed \/ (SizeT < n /\ n < type)
ReadAs(value, n, type, signed) ==
  (IF ~SignIsLost(n, type, signed) /\ 2 * value >= Cursor!Power[n]
   THEN value - Cursor!Power[n] ELSE value) % Cursor!Power[type]

\* The sign is kept, but by a number that is longer than a size_t.
LEMMA SignIsKept ==
  ASSUME Cursor!ByteCursorAssumption, NEW n \in Nat, NEW type \in Nat, NEW signed \in BOOLEAN,
         signed => n > 0, NEW value \in Nat, value < Cursor!Power[n], NEW read,
         read = value % Cursor!Power[type]
  PROVE  (IF signed /\ n < type THEN Cursor!SignExtended(read, n, type) ELSE read)
           = ReadAs(value, n, type, signed)
<1>1. PICK p \in Nat \ {0}, m \in Nat \ {0} : p = Cursor!Power[n] /\ m = Cursor!Power[type]
  BY Powers
<1>0. SizeT \in Nat
  BY DEF Cursor!ByteCursorAssumption
<1>2. CASE ~signed
  BY <1>2 DEF ReadAs, SignIsLost
<1>3. CASE signed /\ n < type
  <2>1. PICK k \in Nat \ {0} : m = p * k
    <3>1. type - n \in Nat /\ type = n + (type - n)
      BY <1>3
    <3>2. Cursor!Power[n + (type - n)] = Cursor!Power[n] * Cursor!Power[type - n]
      BY <3>1, PowersMultiply
    <3>3. Cursor!Power[type - n] \in Nat \ {0}
      BY <3>1, Powers
    <3> QED
      BY <1>1, <3>1, <3>2, <3>3
  <2>2. p <= m
    BY <2>1
  <2>3. value % m = value
    BY <1>1, <2>2
  <2>4. PICK half \in Nat : half = p \div 2 /\ p = 2 * half
    BY <1>1, <1>3, SignBit
  <2>5. value % p = value
    BY <1>1
  <2>6. 2 * half = p /\ (2 * value >= p <=> value >= half)
    BY <2>4
  <2>6a. (IF value >= half THEN value - half ELSE value + half) - half
          = IF 2 * value >= p THEN value - p ELSE value
    BY <2>4
  <2>7. CASE SizeT < n
    <3>1. Cursor!SignExtended(value, n, type) = value
      BY <1>0, <2>7 DEF Cursor!SignExtended
    <3> QED
      BY <1>1, <1>3, <2>3, <2>7, <3>1 DEF ReadAs, SignIsLost
  <2>9. CASE ~(SizeT < n)
    <3>1. Cursor!SignExtended(value, n, type)
            = ((IF value >= half THEN value - half ELSE value + half) - half) % m
      BY <1>0, <1>1, <2>4, <2>5, <2>9 DEF Cursor!SignExtended
    <3> QED
      BY <1>1, <1>3, <2>3, <2>6a, <2>9, <3>1 DEF ReadAs, SignIsLost
  <2> QED
    BY <2>7, <2>9
<1>4. CASE signed /\ ~(n < type)
  <2>1. PICK k \in Nat : p = m * k
    <3>1. n - type \in Nat /\ n = type + (n - type)
      BY <1>4
    <3>2. Cursor!Power[type + (n - type)] = Cursor!Power[type] * Cursor!Power[n - type]
      BY <3>1, PowersMultiply
    <3>3. Cursor!Power[n - type] \in Nat
      BY <3>1, Powers
    <3> QED
      BY <1>1, <3>1, <3>2, <3>3
  <2>2. (value + m * (-k)) % m = value % m
    <3>1. PICK q \in Int : q = -k
      OBVIOUS
    <3>2. value \in Int
      OBVIOUS
    <3>3. (value + m * q) % m = value % m
      BY <3>2, SameRemainder, Zenon
    <3> QED
      BY <3>1, <3>3
  <2>3. value + m * (-k) = value - p
    BY <2>1
  <2> QED
    BY <1>1, <1>4, <2>2, <2>3 DEF ReadAs, SignIsLost
<1> QED
  BY <1>2, <1>3, <1>4

\* After a number was read.
LEMMA ReadIsRight ==
  ASSUME Cursor!ByteCursorAssumption, CursorIInv, buffer_ \in [1 .. BufferLength -> 0 .. Byte - 1],
         big_endian_ \in BOOLEAN, NEW n \in Nat, NEW type \in Nat, NEW signed \in BOOLEAN,
         Cursor!Read(n, type, signed)
  PROVE  Cursor!NumbersAreRight' /\ last'.gave \in Seq(Nat)
<1> DEFINE v == Cursor!Value(IF n > Cursor!Available THEN 0 ELSE n, type)
           gives == IF signed /\ n < type THEN Cursor!SignExtended(v, n, type) ELSE v
<1>1. /\ signed => n > 0
      /\ Cursor!Takes("number", n, type, signed, <<gives>>)
  BY DEF Cursor!Read
<1>2. /\ last'.name = "number" /\ last'.at = here_ /\ last'.size = n /\ buffer_' = buffer_
      /\ last'.type = type /\ last'.signed = signed /\ big_endian_' = big_endian_
      /\ last'.at + last'.size <= BufferLength => here_ + n <= BufferLength /\ last'.gave = <<gives>>
      /\ ~(last'.at + last'.size <= BufferLength) => last'.gave = Cursor!Dummy
  <2> HIDE DEF gives
  <2> QED
    BY <1>1, TakesGives
<1>3. CASE last'.at + last'.size <= BufferLength
  <2>1. here_ \in Nat /\ BufferLength \in Nat /\ here_ + n <= BufferLength /\ ~(n > Cursor!Available)
    <3>1. here_ \in Nat /\ BufferLength \in Nat /\ here_ + n <= BufferLength
      BY <1>2, <1>3 DEF CursorIInv, Cursor!Positions, Cursor!ByteCursorAssumption
    <3> QED
      BY <3>1 DEF Cursor!Available
  <2>2. Bytes(buffer_, here_, n) \in [1 .. n -> 0 .. Byte - 1]
    BY <2>1, BytesAreBytes
  <2>3. PICK h : Loops(h, Bytes(buffer_, here_, n), n, big_endian_)
    BY <2>2, LoopsExist
  <2>4. PICK w : Sums(w, Bytes(buffer_, here_, n), n, big_endian_)
    BY <2>2, SumsExist
  <2>5. h[n] = w[n]
    <3>1. CASE big_endian_ = TRUE
      BY <2>2, <2>3, <2>4, <3>1, BigEndian
    <3>2. CASE big_endian_ = FALSE
      BY <2>2, <2>3, <2>4, <3>2, LittleEndian
    <3> QED
      BY <3>1, <3>2
  <2>6. h[n] \in Nat /\ h[n] < Cursor!Power[n]
    <3>1. h \in [0 .. n -> Nat]
      BY <2>3 DEF Loops
    <3> QED
      BY <2>2, <2>3, <3>1, LoopBound
  <2>7. v = h[n] % Cursor!Power[type]
    <3>1. v = Cursor!Value(n, type)
      BY <2>1
    <3> HIDE DEF v
    <3> QED
      BY <2>1, <2>3, <3>1, ValueIs
  <2>8. gives = ReadAs(h[n], n, type, signed)
    <3> HIDE DEF v
    <3> QED
      BY <1>1, <2>6, <2>7, SignIsKept
  <2>9. Cursor!Meaning' = h[n]
    <3>1. Cursor!Meaning' = MeaningOf(buffer_', last', big_endian_')
      BY MeaningIsOf
    <3>2. PICK l : l = last'
      OBVIOUS
    <3>3. l.at = here_ /\ l.size = n
      BY <1>2, <3>2
    <3>4. MeaningOf(buffer_, l, big_endian_) = w[n]
      BY <2>1, <2>4, <3>3, MeaningIs
    <3> QED
      BY <1>2, <2>5, <3>1, <3>2, <3>4
  <2> HIDE DEF gives
  <2>10. Cursor!NumbersAreRight'
    BY <1>2, <1>3, <2>8, <2>9 DEF Cursor!NumbersAreRight, ReadAs, SignIsLost
  <2>11. gives \in Nat
    <3>1. \A x \in Int, m \in Nat \ {0} : x % m \in Nat
      OBVIOUS
    <3>2. Cursor!Power[type] \in Nat \ {0} /\ Cursor!Power[n] \in Nat
      BY Powers
    <3>3. h[n] - Cursor!Power[n] \in Int /\ h[n] \in Int
      BY <2>6, <3>2
    <3> QED
      BY <2>8, <3>1, <3>2, <3>3 DEF ReadAs
  <2> QED
    <3>1. <<gives>> \in Seq(Nat)
      BY <2>11
    <3> QED
      BY <1>2, <1>3, <2>10, <3>1
<1>4. CASE ~(last'.at + last'.size <= BufferLength)
  <2>1. last'.gave = << >>
    BY <1>2, <1>4 DEF Cursor!Dummy
  <2> HIDE DEF gives
  <2> QED
    BY <1>2, <1>4, <2>1 DEF Cursor!NumbersAreRight, Cursor!Dummy
<1> QED
  BY <1>3, <1>4

\* What an operation gives is a sequence of numbers.
LEMMA PartIsOfNumbers ==
  ASSUME Cursor!ByteCursorAssumption, buffer_ \in [1 .. BufferLength -> 0 .. Byte - 1],
         NEW at \in Nat, NEW n \in Nat, at + n <= BufferLength
  PROVE  SubSeq(buffer_, at + 1, at + n) \in Seq(Nat)
<1>1. BufferLength \in Nat /\ Byte \in Nat
  BY DEF Cursor!ByteCursorAssumption
<1>2. buffer_ \in [1 .. BufferLength -> Nat]
  BY <1>1
<1>3. buffer_ \in Seq(Nat) /\ Len(buffer_) = BufferLength
  BY <1>1, <1>2
<1>4. at + 1 \in 1 .. Len(buffer_) + 1 /\ at + n \in 0 .. Len(buffer_)
  BY <1>1, <1>3
<1>5. \A i \in at + 1 .. at + n : buffer_[i] \in Nat
  BY <1>1, <1>2
<1> QED
  BY <1>3, <1>4, <1>5

\* Types of the last operation.
LastTypes == last.at \in Cursor!Positions /\ last.size \in Cursor!Sizes /\ last.gave \in Seq(Nat)

LEMMA OtherIsTyped ==
  ASSUME Cursor!ByteCursorAssumption, CursorIInv, NEW size \in Cursor!Sizes,
         NEW op, op # "number", NEW type, NEW signed, NEW gives,
         here_ + size <= BufferLength => gives \in Seq(Nat),
         Cursor!Takes(op, size, type, signed, gives)
  PROVE  Cursor!NumbersAreRight' /\ LastTypes' /\ big_endian_' = big_endian_
<1>1. size \in Nat /\ BufferLength \in Nat
  BY DEF Cursor!Sizes, Cursor!ByteCursorAssumption
<1>2. /\ last'.name = op /\ last'.at = here_ /\ last'.size = size /\ big_endian_' = big_endian_
      /\ last'.at + last'.size <= BufferLength => here_ + size <= BufferLength /\ last'.gave = gives
      /\ ~(last'.at + last'.size <= BufferLength) => last'.gave = Cursor!Dummy
  BY <1>1, TakesGives
<1>3. Cursor!Dummy \in Seq(Nat)
  BY DEF Cursor!Dummy
<1>4. here_ \in Cursor!Positions
  BY DEF CursorIInv
<1>5. last'.gave \in Seq(Nat)
  BY <1>2, <1>3
<1> QED
  BY <1>2, <1>4, <1>5 DEF LastTypes, Cursor!NumbersAreRight, Cursor!Positions, Cursor!Sizes

LEMMA NoOperationIsTyped ==
  ASSUME Cursor!ByteCursorAssumption, last' = Cursor!NoOperation
  PROVE  Cursor!NumbersAreRight' /\ LastTypes'
<1>1. BufferLength \in Nat
  BY DEF Cursor!ByteCursorAssumption
<1> QED
  BY <1>1 DEF LastTypes, Cursor!NumbersAreRight, Cursor!Positions, Cursor!Sizes, Cursor!NoOperation, Cursor!Dummy

LEMMA StringIsTyped ==
  ASSUME Cursor!ByteCursorAssumption, CursorIInv, buffer_ \in [1 .. BufferLength -> 0 .. Byte - 1],
         Cursor!CString
  PROVE  Cursor!NumbersAreRight' /\ LastTypes' /\ big_endian_' = big_endian_
<1> DEFINE zeros == Cursor!Zeros(Cursor!Available)
           length == IF zeros = {} THEN Cursor!Available ELSE Cursor!Min(zeros)
<1>1. /\ Cursor!Available \in Nat /\ BufferLength \in Nat /\ here_ \in Nat
      /\ Cursor!Available = BufferLength - here_
  BY DEF Cursor!Available, CursorIInv, Cursor!Positions, Cursor!ByteCursorAssumption
<1>2. zeros # {} => length \in 0 .. Cursor!Available - 1
  BY <1>1, FirstZero
<1>3. length \in Nat /\ length <= BufferLength - here_
  BY <1>1, <1>2
<1>4. Cursor!Takes("string", length + 1, 0, FALSE, SubSeq(buffer_, here_ + 1, here_ + length))
  BY DEF Cursor!CString
<1> HIDE DEF length, zeros
<1>5. length + 1 \in Cursor!Sizes
  BY <1>1, <1>3 DEF Cursor!Sizes
<1>6. SubSeq(buffer_, here_ + 1, here_ + length) \in Seq(Nat)
  <2>1. here_ + length <= BufferLength
    BY <1>1, <1>3
  <2> QED
    BY <1>1, <1>3, <2>1, PartIsOfNumbers
<1> QED
  BY <1>4, <1>5, <1>6, OtherIsTyped

LEMMA FieldIsTyped ==
  ASSUME Cursor!ByteCursorAssumption, CursorIInv, buffer_ \in [1 .. BufferLength -> 0 .. Byte - 1],
         NEW limit \in Cursor!Sizes, Cursor!CStringField(limit)
  PROVE  Cursor!NumbersAreRight' /\ LastTypes' /\ big_endian_' = big_endian_
<1> DEFINE zeros == IF limit > Cursor!Available THEN {} ELSE Cursor!Zeros(limit)
           length == IF zeros = {} THEN limit ELSE Cursor!Min(zeros)
<1>1. /\ BufferLength \in Nat /\ here_ \in Nat /\ limit \in Nat
  BY DEF CursorIInv, Cursor!Positions, Cursor!Sizes, Cursor!ByteCursorAssumption
<1>2. length \in 0 .. limit
  <2>1. CASE zeros = {}
    BY <1>1, <2>1
  <2>2. CASE zeros # {}
    BY <1>1, <2>2, FirstZero
  <2> QED
    BY <2>1, <2>2
<1>3. Cursor!Takes("field", limit, 0, FALSE, SubSeq(buffer_, here_ + 1, here_ + length))
  BY DEF Cursor!CStringField
<1> HIDE DEF length, zeros
<1>4. here_ + limit <= BufferLength => SubSeq(buffer_, here_ + 1, here_ + length) \in Seq(Nat)
  <2> SUFFICES ASSUME here_ + limit <= BufferLength
               PROVE  SubSeq(buffer_, here_ + 1, here_ + length) \in Seq(Nat)
    OBVIOUS
  <2>1. length \in Nat /\ here_ + length <= BufferLength
    BY <1>1, <1>2
  <2> QED
    BY <1>1, <2>1, PartIsOfNumbers
<1> QED
  BY <1>3, <1>4, OtherIsTyped

\* After every operation.
LEMMA NextGivesNumbers ==
  ASSUME Cursor!ByteCursorAssumption, CursorIInv, buffer_ \in [1 .. BufferLength -> 0 .. Byte - 1],
         big_endian_ \in BOOLEAN, Cursor!Next
  PROVE  Cursor!NumbersAreRight' /\ LastTypes' /\ big_endian_' \in BOOLEAN
<1>1. BufferLength \in Nat /\ here_ \in Nat /\ \A size \in Cursor!Sizes : size \in Nat
  BY DEF Cursor!Sizes, Cursor!ByteCursorAssumption, CursorIInv, Cursor!Positions
<1>2. ASSUME \E size \in Cursor!Sizes :
             \/ \E type \in TypeSizes, signed \in BOOLEAN : Cursor!Read(size, type, signed)
             \/ Cursor!ReadBlock(size) \/ Cursor!PointTo(size)
             \/ Cursor!Skip(size) \/ Cursor!CStringField(size)
      PROVE  Cursor!NumbersAreRight' /\ LastTypes' /\ big_endian_' = big_endian_
  <2>1. PICK size \in Cursor!Sizes :
             \/ \E type \in TypeSizes, signed \in BOOLEAN : Cursor!Read(size, type, signed)
             \/ Cursor!ReadBlock(size) \/ Cursor!PointTo(size)
             \/ Cursor!Skip(size) \/ Cursor!CStringField(size)
    BY <1>2
  <2>2. size \in Nat
    BY <1>1
  <2>3. CASE \E type \in TypeSizes, signed \in BOOLEAN : Cursor!Read(size, type, signed)
    <3>1. PICK type \in TypeSizes, signed \in BOOLEAN : Cursor!Read(size, type, signed)
      BY <2>3
    <3>2. type \in Nat
      BY <3>1 DEF Cursor!ByteCursorAssumption
    <3>3. Cursor!NumbersAreRight' /\ last'.gave \in Seq(Nat)
      BY <2>2, <3>1, <3>2, ReadIsRight
    <3>4. PICK gives : Cursor!Takes("number", size, type, signed, gives)
      BY <3>1 DEF Cursor!Read
    <3>5. last'.at = here_ /\ last'.size = size /\ big_endian_' = big_endian_
      BY <2>2, <3>4, TakesGives
    <3>6. here_ \in Cursor!Positions
      BY DEF CursorIInv
    <3> QED
      BY <3>3, <3>5, <3>6 DEF LastTypes, Cursor!Positions, Cursor!Sizes
  <2>4. CASE Cursor!ReadBlock(size)
    <3>1. Cursor!Takes("block", size, 0, FALSE, SubSeq(buffer_, here_ + 1, here_ + size))
      BY <2>4 DEF Cursor!ReadBlock
    <3>2. here_ + size <= BufferLength => SubSeq(buffer_, here_ + 1, here_ + size) \in Seq(Nat)
      BY <1>1, <2>2, PartIsOfNumbers
    <3> QED
      BY <3>1, <3>2, OtherIsTyped
  <2>5. CASE Cursor!PointTo(size)
    <3>1. Cursor!Takes("pointer", size, 0, FALSE, <<here_>>)
      BY <2>5 DEF Cursor!PointTo
    <3>2. <<here_>> \in Seq(Nat)
      BY <1>1
    <3> QED
      BY <3>1, <3>2, OtherIsTyped
  <2>6. CASE Cursor!Skip(size)
    <3>1. Cursor!Takes("skip", size, 0, FALSE, Cursor!Dummy)
      BY <2>6 DEF Cursor!Skip
    <3>2. Cursor!Dummy \in Seq(Nat)
      BY DEF Cursor!Dummy
    <3> QED
      BY <3>1, <3>2, OtherIsTyped
  <2>7. CASE Cursor!CStringField(size)
    BY <2>7, FieldIsTyped
  <2> QED
    BY <2>1, <2>3, <2>4, <2>5, <2>6, <2>7
<1>3. ASSUME \E here \in Cursor!Positions : Cursor!set_here(here)
      PROVE  Cursor!NumbersAreRight' /\ LastTypes' /\ big_endian_' = big_endian_
  <2>1. last' = Cursor!NoOperation /\ big_endian_' = big_endian_
    BY <1>3 DEF Cursor!set_here
  <2> QED
    BY <2>1, NoOperationIsTyped
<1>4. ASSUME Cursor!set_big_endian PROVE Cursor!NumbersAreRight' /\ LastTypes' /\ big_endian_' \in BOOLEAN
  <2>1. last' = Cursor!NoOperation /\ big_endian_' \in BOOLEAN
    BY <1>4 DEF Cursor!set_big_endian
  <2> QED
    BY <2>1, NoOperationIsTyped
<1> QED
  BY <1>2, <1>3, <1>4, StringIsTyped DEF Cursor!Next

LEMMA NumbersInductive ==
  Spec => [](Cursor!NumbersAreRight /\ LastTypes /\ big_endian_ \in BOOLEAN)
<1> DEFINE Buffers == buffer_ \in [1 .. BufferLength -> 0 .. Byte - 1]
           Numbers1 == Cursor!NumbersAreRight /\ LastTypes /\ big_endian_ \in BOOLEAN
<1>1. Init => Numbers1
  <2> SUFFICES ASSUME Init PROVE Numbers1
    OBVIOUS
  <2>1. BufferLength \in Nat
    BY DumpReadersAssumption DEF Cursor!ByteCursorAssumption
  <2>2. last = Cursor!NoOperation /\ big_endian_ \in BOOLEAN
    BY DEF Init, Cursor!Init
  <2> QED
    BY <2>1, <2>2
       DEF LastTypes, Cursor!NumbersAreRight, Cursor!Positions, Cursor!Sizes, Cursor!NoOperation, Cursor!Dummy
<1>2. CursorIInv /\ Buffers /\ Numbers1 /\ [Next]_vars => Numbers1'
  <2> SUFFICES ASSUME CursorIInv, Buffers, Numbers1, [Next]_vars PROVE Numbers1'
    OBVIOUS
  <2>1. CASE UNCHANGED cursor
    <3>1. Cursor!Meaning' = Cursor!Meaning
      BY <2>1, MeaningIsOf DEF cursor
    <3> QED
      BY <2>1, <3>1 DEF cursor, Cursor!NumbersAreRight, LastTypes
  <2>2. CASE Cursor!Next
    BY <2>2, NextGivesNumbers, DumpReadersAssumption
  <2> QED
    BY <2>1, <2>2 DEF Next, On, vars
<1> HIDE DEF Numbers1
<1>3. Spec => []Numbers1
  <2>1. Spec => []Buffers
    BY StringsInductive, PTL
  <2> HIDE DEF Buffers
  <2> QED
    BY <1>1, <1>2, <2>1, CursorInductive, PTL DEF Spec
<1> QED
  BY <1>3 DEF Numbers1

LEMMA CursorIsTyped ==
  Spec => []Cursor!TypeOK
<1>1. CursorIInv /\ LastTypes /\ big_endian_ \in BOOLEAN /\ buffer_ \in [1 .. BufferLength -> 0 .. Byte - 1]
        => Cursor!TypeOK
  BY DEF CursorIInv, LastTypes, Cursor!TypeOK
<1> QED
  BY <1>1, CursorInductive, StringsInductive, NumbersInductive, PTL

\* For a buffer of any length and any sequence of operations, the cursor is
\* where the last of them has ended, or at the end, it is true if all that was
\* asked of it was there, false from the first time on that it was not, and
\* numbers, in either byte order and with or without a sign, in a type of their
\* size, a wider or a narrower one, strings and blocks are what their bytes say,
\* but for the sign of a number that is longer than a size_t.
THEOREM CursorsAreRight ==
  Spec => [](/\ Cursor!TypeOK /\ Cursor!NothingAfterAFailure /\ Cursor!CompleteMeansAll
             /\ Cursor!NumbersAreRight /\ Cursor!StringsAreRight)
<1>1. CursorIInv => Cursor!NothingAfterAFailure /\ Cursor!CompleteMeansAll
  BY DEF CursorIInv
<1> QED
  BY <1>1, CursorInductive, CursorIsTyped, NumbersInductive, StringsInductive, PTL
-----------------------------------------------------------------------------
\* The number of elements of a set is the same in every module.
LEMMA Counting == ASSUME NEW S PROVE Cpus!Cardinality(S) = Cardinality(S)
BY DEF Cpus!Cardinality, Cardinality

LEMMA TimesGrows ==
  ASSUME NEW m \in Nat \ {0}, NEW x \in Int, NEW y \in Int, x < y
  PROVE  m * x + m <= m * y
<1>1. PICK e \in Nat : y = x + 1 + e
  <2>1. y - x - 1 \in Nat /\ y = x + 1 + (y - x - 1)
    OBVIOUS
  <2> QED
    BY <2>1
<1>2. PICK u \in Int, v \in Nat : u = m * x /\ v = m * e
  OBVIOUS
<1>3. m * (x + 1 + e) = u + m + v
  BY <1>2
<1> QED
  BY <1>1, <1>2, <1>3

\* There is a bit for every processor.
LEMMA MaxFits ==
  ASSUME Cpus!CpuSetAssumption
  PROVE  /\ kMaskWordBits \in Nat \ {0} /\ kMaxCpus \in Nat \ {0} /\ Cpus!kMaskWordCount \in Nat
         /\ kMaxCpus <= kMaskWordBits * Cpus!kMaskWordCount
<1> DEFINE W == kMaskWordBits
           words == Cpus!kMaskWordCount
<1>1. W \in Nat \ {0} /\ kMaxCpus \in Nat \ {0}
  BY DEF Cpus!CpuSetAssumption
<1>2. PICK t \in 0 .. W - 1 : words \in Int /\ kMaxCpus + W - 1 = W * words + t
  <2>1. PICK x \in Int : x = kMaxCpus + W - 1
    BY <1>1
  <2>2. words = x \div W
    BY <2>1 DEF Cpus!kMaskWordCount
  <2> HIDE DEF words
  <2>3. x % W \in 0 .. W - 1 /\ x \div W \in Int /\ x = W * (x \div W) + (x % W)
    BY <1>1, Division
  <2> QED
    BY <2>1, <2>2, <2>3
<1> HIDE DEF words
<1>3. PICK u \in Int : u = W * words
  BY <1>1, <1>2
<1>4. kMaxCpus <= u
  BY <1>1, <1>2, <1>3
<1>5. words >= 0
  <2> SUFFICES ASSUME words < 0 PROVE FALSE
    BY <1>2
  <2>1. W * words + W <= W * 0
    BY <1>1, <1>2, TimesGrows
  <2>2. W * 0 = 0
    BY <1>1
  <2> QED
    BY <1>1, <1>3, <1>4, <2>1, <2>2
<1> QED
  BY <1>1, <1>2, <1>3, <1>4, <1>5 DEF words

\* The word and the bit of a processor, and the processor of a bit.
LEMMA BitOfCpu ==
  ASSUME Cpus!CpuSetAssumption, NEW c \in Nat, c < kMaskWordBits * Cpus!kMaskWordCount
  PROVE  /\ c \div kMaskWordBits \in Cpus!Words /\ c % kMaskWordBits \in 0 .. kMaskWordBits - 1
         /\ c = kMaskWordBits * (c \div kMaskWordBits) + (c % kMaskWordBits)
<1> DEFINE W == kMaskWordBits
           d == c \div W
           r == c % W
           words == Cpus!kMaskWordCount
<1>1. W \in Nat \ {0} /\ words \in Nat
  BY MaxFits
<1>2. r \in 0 .. W - 1 /\ d \in Int /\ c = W * d + r
  BY <1>1, Division
<1> HIDE DEF d, r, words
<1>3. PICK u \in Int, v \in Int : u = W * d /\ v = W * words
  BY <1>1, <1>2
<1>4. d >= 0
  <2> SUFFICES ASSUME d < 0 PROVE FALSE
    BY <1>2
  <2>1. W * d + W <= W * 0
    BY <1>1, <1>2, TimesGrows
  <2>2. W * 0 = 0
    BY <1>1
  <2> QED
    BY <1>1, <1>2, <1>3, <2>1, <2>2
<1>5. d < words
  <2> SUFFICES ASSUME words < d \/ words = d PROVE FALSE
    BY <1>1, <1>2
  <2>1. v <= u
    <3>1. CASE words = d
      BY <1>3, <3>1
    <3>2. CASE words < d
      <4>1. W * words + W <= W * d
        BY <1>1, <1>2, <3>2, TimesGrows
      <4> QED
        BY <1>1, <1>3, <4>1
    <3> QED
      BY <3>1, <3>2
  <2>2. c < v
    BY <1>3 DEF words
  <2> QED
    BY <1>2, <1>3, <2>1, <2>2
<1>6. d \in 0 .. words - 1
  BY <1>1, <1>2, <1>4, <1>5
<1> QED
  BY <1>2, <1>6 DEF d, r, words, Cpus!Words

LEMMA CpuOfBit ==
  ASSUME Cpus!CpuSetAssumption, NEW nn \in Nat, NEW b \in 0 .. kMaskWordBits - 1
  PROVE  /\ kMaskWordBits * nn + b \in Nat
         /\ (kMaskWordBits * nn + b) \div kMaskWordBits = nn
         /\ (kMaskWordBits * nn + b) % kMaskWordBits = b
<1> DEFINE W == kMaskWordBits
           c == W * nn + b
<1>1. W \in Nat \ {0} /\ c \in Nat
  BY DEF Cpus!CpuSetAssumption
<1>2. c % W = b
  BY <1>1, OneRemainder
<1>3. c \div W \in Int /\ c = W * (c \div W) + (c % W)
  <2> HIDE DEF c
  <2> QED
    BY <1>1, Division
<1>4. PICK k \in Int : k = c \div W
  BY <1>3
<1>5. W * nn = W * k
  <2>1. PICK u \in Int, v \in Int : u = W * nn /\ v = W * k
    BY <1>1, <1>4
  <2>2. u + b = v + b
    BY <1>2, <1>3, <1>4, <2>1
  <2>3. b \in Int
    BY <1>1
  <2> QED
    BY <2>1, <2>2, <2>3
<1>6. nn = k
  <2>1. ~(nn < k) /\ ~(k < nn)
    BY <1>1, <1>4, <1>5, TimesGrows
  <2>2. nn \in Int /\ k \in Int
    BY <1>4
  <2> HIDE DEF c
  <2> QED
    BY <2>1, <2>2
<1> QED
  BY <1>1, <1>2, <1>4, <1>6

\* The processors of the first n words.
Masks == [Cpus!Words -> SUBSET (0 .. kMaskWordBits - 1)]
CpusBelow(m, n) == {c \in Nat : c < kMaskWordBits * n /\ c % kMaskWordBits \in m[c \div kMaskWordBits]}

\* A word more: those of its bits are added.
LEMMA WordAdds ==
  ASSUME Cpus!CpuSetAssumption, NEW m \in Masks, NEW n \in Cpus!Words, IsFiniteSet(CpusBelow(m, n))
  PROVE  /\ IsFiniteSet(CpusBelow(m, n + 1)) /\ IsFiniteSet(m[n])
         /\ Cardinality(CpusBelow(m, n + 1)) = Cardinality(CpusBelow(m, n)) + Cardinality(m[n])
<1> DEFINE W == kMaskWordBits
           A == CpusBelow(m, n)
           Row == {W * n + b : b \in m[n]}
           f == [b \in m[n] |-> W * n + b]
<1>1. W \in Nat \ {0} /\ n \in Nat /\ m[n] \in SUBSET (0 .. W - 1)
  BY MaxFits DEF Cpus!Words, Masks
<1>2. \A b \in m[n] : /\ W * n + b \in Nat /\ (W * n + b) \div W = n /\ (W * n + b) % W = b
  BY <1>1, CpuOfBit
<1>3. IsFiniteSet(m[n])
  <2>1. 0 \in Int /\ W - 1 \in Int
    BY <1>1
  <2>2. IsFiniteSet(0 .. W - 1)
    BY <2>1, FS_Interval
  <2> QED
    BY <1>1, <2>2, FS_Subset
<1>4. IsFiniteSet(Row) /\ Cardinality(Row) = Cardinality(m[n])
  <2>1. f \in [m[n] -> Row] /\ \A b \in m[n] : f[b] = W * n + b
    OBVIOUS
  <2> HIDE DEF f
  <2>2. \A b, d \in m[n] : f[b] = f[d] => b = d
    BY <1>2, <2>1
  <2>3. \A x \in Row : \E b \in m[n] : f[b] = x
    BY <2>1
  <2>4. f \in Bijection(m[n], Row)
    <3> HIDE DEF Row
    <3> QED
      BY <2>1, <2>2, <2>3 DEF Bijection, Injection, Surjection, IsInjective
  <2> HIDE DEF Row
  <2> QED
    BY <1>3, <2>4, FS_Bijection DEF ExistsBijection
<1>5. PICK u \in Nat : u = W * n /\ W * (n + 1) = u + W
  BY <1>1
<1>6. CpusBelow(m, n + 1) = A \cup Row
  <2>1. ASSUME NEW c \in CpusBelow(m, n + 1), c \notin A PROVE c \in Row
    <3>1. c \in Nat /\ c < u + W /\ c % W \in m[c \div W] /\ ~(c < u)
      BY <1>5, <2>1 DEF CpusBelow
    <3>2. c - u \in 0 .. W - 1 /\ c = u + (c - u)
      BY <1>1, <3>1
    <3>3. c \div W = n /\ c % W = c - u
      <4>1. PICK b \in 0 .. W - 1 : b = c - u /\ c = W * n + b
        BY <1>5, <3>2
      <4>2. (W * n + b) \div W = n /\ (W * n + b) % W = b
        BY <1>1, CpuOfBit
      <4> QED
        BY <4>1, <4>2
    <3> QED
      BY <1>5, <3>1, <3>2, <3>3
  <2>2. ASSUME NEW c \in A PROVE c \in CpusBelow(m, n + 1)
    BY <1>1, <1>5 DEF CpusBelow
  <2>3. ASSUME NEW b \in m[n] PROVE W * n + b \in CpusBelow(m, n + 1)
    <3>1. W * n + b < W * (n + 1)
      BY <1>1, <1>5
    <3> QED
      BY <1>2, <3>1 DEF CpusBelow
  <2> HIDE DEF A
  <2> QED
    BY <2>1, <2>2, <2>3
<1>7. A \cap Row = {}
  <2> SUFFICES ASSUME NEW b \in m[n], W * n + b \in A PROVE FALSE
    OBVIOUS
  <2>1. W * n + b < W * n
    BY DEF CpusBelow
  <2> QED
    BY <1>1, <1>5, <2>1
<1> HIDE DEF Row, A
<1>8. /\ IsFiniteSet(A \cup Row)
      /\ Cardinality(A \cup Row) = Cardinality(A) + Cardinality(Row) - Cardinality(A \cap Row)
  BY <1>4, FS_Union DEF A
<1>9. Cardinality(A \cap Row) = 0 /\ Cardinality(A) \in Nat /\ Cardinality(Row) \in Nat
  BY <1>4, <1>7, FS_EmptySet, FS_CardinalityType DEF A
<1>10. Cardinality(A \cup Row) = Cardinality(A) + Cardinality(Row)
  BY <1>8, <1>9
<1> QED
  BY <1>3, <1>4, <1>6, <1>8, <1>10 DEF A

\* So many bits has a mask.
CountOf(m) ==
  LET result[nn \in 0 .. Cpus!kMaskWordCount] ==
        IF nn = 0 THEN 0 ELSE result[nn - 1] + Cpus!Cardinality(m[nn - 1])
  IN result[Cpus!kMaskWordCount]

LEMMA CountIs ==
  ASSUME Cpus!CpuSetAssumption, NEW m \in Masks
  PROVE  /\ IsFiniteSet(CpusBelow(m, Cpus!kMaskWordCount))
         /\ CountOf(m) = Cardinality(CpusBelow(m, Cpus!kMaskWordCount))
<1> DEFINE N == Cpus!kMaskWordCount
           F(r) == [nn \in 0 .. N |-> IF nn = 0 THEN 0 ELSE r[nn - 1] + Cpus!Cardinality(m[nn - 1])]
           g == CHOOSE r : r = F(r)
           u == [nn \in 0 .. N |-> Cardinality(CpusBelow(m, nn))]
           Good == {n \in Nat : n <= N => IsFiniteSet(CpusBelow(m, n))}
<1>1. N \in Nat /\ \A n \in Nat : n + 1 <= N => n \in Cpus!Words
  BY MaxFits DEF Cpus!Words
<1>2. IsFiniteSet(CpusBelow(m, 0)) /\ Cardinality(CpusBelow(m, 0)) = 0
  <2>1. CpusBelow(m, 0) = {}
    BY MaxFits DEF CpusBelow
  <2> QED
    BY <2>1, FS_EmptySet
<1> HIDE DEF N
<1>3. \A n \in Nat : n \in Good
  <2>1. Good \in SUBSET Nat /\ 0 \in Good
    BY <1>2
  <2>2. ASSUME NEW n \in Nat, n \in Good PROVE n + 1 \in Good
    <3> SUFFICES ASSUME n + 1 <= N PROVE IsFiniteSet(CpusBelow(m, n + 1))
      OBVIOUS
    <3>1. n \in Cpus!Words /\ n <= N
      BY <1>1
    <3>2. IsFiniteSet(CpusBelow(m, n))
      BY <2>2, <3>1
    <3> QED
      BY <3>1, <3>2, WordAdds
  <2> HIDE DEF Good
  <2> QED
    BY <2>1, <2>2, HoldsAlways
<1>4. \A n \in 0 .. N : IsFiniteSet(CpusBelow(m, n))
  BY <1>1, <1>3
<1>5. ASSUME NEW n \in 1 .. N
      PROVE  n - 1 \in 0 .. N /\ Cardinality(CpusBelow(m, n)) = Cardinality(CpusBelow(m, n - 1)) + Cpus!Cardinality(m[n - 1])
  <2>1. n - 1 \in Cpus!Words /\ n - 1 \in 0 .. N /\ (n - 1) + 1 = n
    BY <1>1
  <2>2. Cardinality(CpusBelow(m, (n - 1) + 1)) = Cardinality(CpusBelow(m, n - 1)) + Cardinality(m[n - 1])
    BY <1>4, <2>1, WordAdds
  <2> QED
    BY <2>1, <2>2, Counting
<1>6. u = F(u)
  <2>1. ASSUME NEW n \in 0 .. N
        PROVE  u[n] = IF n = 0 THEN 0 ELSE u[n - 1] + Cpus!Cardinality(m[n - 1])
    <3>1. CASE n = 0
      BY <1>1, <1>2, <3>1
    <3>2. CASE n # 0
      <4>1. n \in 1 .. N
        BY <1>1, <3>2
      <4> QED
        BY <1>5, <3>2, <4>1
    <3> QED
      BY <3>1, <3>2
  <2>2. PICK f : f = u
    OBVIOUS
  <2>3. f = [nn \in 0 .. N |-> f[nn]]
    BY <2>2
  <2>4. \A n \in 0 .. N : f[n] = IF n = 0 THEN 0 ELSE f[n - 1] + Cpus!Cardinality(m[n - 1])
    <3> HIDE DEF u
    <3> QED
      BY <2>1, <2>2
  <2>5. f = F(f)
    BY <2>3, <2>4
  <2> QED
    BY <2>2, <2>5
<1>7. g = F(g)
  <2> HIDE DEF F, u
  <2> QED
    BY <1>6
<1>8. CountOf(m) = g[N]
  BY DEF CountOf, N
<1> HIDE DEF g
<1>9. g[0] = 0 /\ \A n \in 1 .. N : g[n] = g[n - 1] + Cpus!Cardinality(m[n - 1])
  <2>1. \A n \in 0 .. N : g[n] = IF n = 0 THEN 0 ELSE g[n - 1] + Cpus!Cardinality(m[n - 1])
    BY <1>7
  <2>2. 0 \in 0 .. N /\ \A n \in 1 .. N : n \in 0 .. N /\ n # 0
    BY <1>1
  <2> QED
    BY <2>1, <2>2
<1> DEFINE Same == {n \in Nat : n <= N => g[n] = Cardinality(CpusBelow(m, n))}
<1>10. Same \in SUBSET Nat /\ 0 \in Same
  BY <1>2, <1>9
<1>11. ASSUME NEW n \in Nat, n \in Same PROVE n + 1 \in Same
  <2> SUFFICES ASSUME n + 1 <= N PROVE g[n + 1] = Cardinality(CpusBelow(m, n + 1))
    OBVIOUS
  <2>1. n + 1 \in 1 .. N /\ (n + 1) - 1 = n /\ n <= N
    BY <1>1
  <2>2. g[n] = Cardinality(CpusBelow(m, n))
    BY <1>11, <2>1
  <2> QED
    BY <1>5, <1>9, <2>1, <2>2
<1>12. N \in Same
  <2> HIDE DEF Same
  <2> QED
    BY <1>1, <1>10, <1>11, HoldsAlways
<1> QED
  BY <1>1, <1>4, <1>8, <1>12 DEF N

\* Every bit is one of a processor the program counts, and they are those of C.
Low(m) == \A nn \in Cpus!Words : \A b \in m[nn] : kMaskWordBits * nn + b < kMaxCpus
Means(m, C) ==
  \A c \in Nat : c < kMaxCpus => (c % kMaskWordBits \in m[c \div kMaskWordBits] <=> c \in C)

LEMMA CountIsOfMeant ==
  ASSUME Cpus!CpuSetAssumption, NEW m \in Masks, Low(m)
  PROVE  /\ CountOf(m) \in 0 .. kMaxCpus
         /\ \A C \in SUBSET Nat : Means(m, C) => CountOf(m) = Cpus!Cardinality({c \in C : c < kMaxCpus})
<1> DEFINE B == CpusBelow(m, Cpus!kMaskWordCount)
<1>1. kMaxCpus \in Nat \ {0} /\ kMaskWordBits \in Nat \ {0} /\ Cpus!kMaskWordCount \in Nat
  BY MaxFits
<1>2. B = {c \in Nat : c < kMaxCpus /\ c % kMaskWordBits \in m[c \div kMaskWordBits]}
  <2>1. ASSUME NEW c \in B PROVE c < kMaxCpus
    <3>1. /\ c \in Nat /\ c < kMaskWordBits * Cpus!kMaskWordCount
          /\ c % kMaskWordBits \in m[c \div kMaskWordBits]
      BY DEF CpusBelow
    <3>2. /\ c \div kMaskWordBits \in Cpus!Words
          /\ c = kMaskWordBits * (c \div kMaskWordBits) + (c % kMaskWordBits)
      BY <3>1, BitOfCpu
    <3> QED
      BY <3>1, <3>2 DEF Low
  <2>2. ASSUME NEW c \in Nat, c < kMaxCpus PROVE c < kMaskWordBits * Cpus!kMaskWordCount
    <3>1. PICK v \in Int : v = kMaskWordBits * Cpus!kMaskWordCount
      BY <1>1
    <3>2. kMaxCpus <= v
      BY <3>1, MaxFits
    <3> QED
      BY <1>1, <2>2, <3>1, <3>2
  <2> QED
    BY <2>1, <2>2 DEF CpusBelow
<1>3. IsFiniteSet(B) /\ CountOf(m) = Cardinality(B)
  BY CountIs
<1>4. Cardinality(B) \in 0 .. kMaxCpus
  <2>1. B \in SUBSET (0 .. kMaxCpus - 1)
    BY <1>1, <1>2
  <2>2. IsFiniteSet(0 .. kMaxCpus - 1) /\ Cardinality(0 .. kMaxCpus - 1) = kMaxCpus
    <3>1. 0 \in Int /\ kMaxCpus - 1 \in Int /\ ~(0 > kMaxCpus - 1)
      BY <1>1
    <3>2. IsFiniteSet(0 .. kMaxCpus - 1) /\ Cardinality(0 .. kMaxCpus - 1) = kMaxCpus - 1 - 0 + 1
      BY <3>1, FS_Interval
    <3> QED
      BY <1>1, <3>2
  <2> HIDE DEF B
  <2>3. Cardinality(B) <= kMaxCpus
    BY <2>1, <2>2, FS_Subset
  <2>4. Cardinality(B) \in Nat
    BY <1>3, FS_CardinalityType
  <2> QED
    BY <1>1, <2>3, <2>4
<1>5. ASSUME NEW C \in SUBSET Nat, Means(m, C) PROVE B = {c \in C : c < kMaxCpus}
  <2> HIDE DEF B
  <2> QED
    BY <1>2, <1>5 DEF Means
<1> HIDE DEF B
<1> QED
  BY <1>3, <1>4, <1>5, Counting

\* SetBit of each of some processors in an empty mask.
LEMMA BitsAreSet ==
  ASSUME Cpus!CpuSetAssumption, NEW m, m = [nn \in Cpus!Words |-> {}], NEW C \in SUBSET Int
  PROVE  /\ Cpus!WithBits(m, C) \in Masks /\ Low(Cpus!WithBits(m, C)) /\ Means(Cpus!WithBits(m, C), C)
<1> DEFINE W == kMaskWordBits
           row(nn) == {j \in C : j < kMaxCpus /\ j \div W = nn}
           set == Cpus!WithBits(m, C)
<1>1. W \in Nat \ {0} /\ kMaxCpus \in Nat
  BY MaxFits
<1>2. set = [nn \in Cpus!Words |-> {i % W : i \in row(nn)}]
  BY DEF Cpus!WithBits
<1>3. \A i \in Int : i % W \in 0 .. W - 1
  BY <1>1
<1>4. set \in Masks
  <2>1. \A nn \in Cpus!Words : {i % W : i \in row(nn)} \in SUBSET (0 .. W - 1)
    BY <1>3
  <2> HIDE DEF row, set
  <2> QED
    BY <1>2, <2>1 DEF Masks
<1>5. \A i \in Int : i = W * (i \div W) + (i % W)
  BY <1>1, Division
<1>6. Low(set)
  <2> SUFFICES ASSUME NEW nn \in Cpus!Words, NEW b \in set[nn] PROVE W * nn + b < kMaxCpus
    BY DEF Low
  <2>1. PICK i \in row(nn) : b = i % W
    BY <1>2
  <2>2. i \in Int /\ i < kMaxCpus /\ i \div W = nn
    OBVIOUS
  <2>3. i = W * (i \div W) + (i % W)
    BY <1>5, <2>2
  <2> HIDE DEF row, set
  <2> QED
    BY <2>1, <2>2, <2>3
<1>7. Means(set, C)
  <2> SUFFICES ASSUME NEW c \in Nat, c < kMaxCpus PROVE c % W \in set[c \div W] <=> c \in C
    BY DEF Means
  <2>1. c \div W \in Cpus!Words /\ c = W * (c \div W) + (c % W)
    <3>1. PICK v \in Int : v = kMaskWordBits * Cpus!kMaskWordCount /\ kMaxCpus <= v
      BY MaxFits
    <3>2. c < kMaskWordBits * Cpus!kMaskWordCount
      BY <1>1, <3>1
    <3> QED
      BY <3>2, BitOfCpu
  <2>2. set[c \div W] = {i % W : i \in row(c \div W)}
    BY <1>2, <2>1
  <2>3. ASSUME c \in C PROVE c % W \in set[c \div W]
    BY <2>2, <2>3
  <2>4. ASSUME c % W \in set[c \div W] PROVE c \in C
    <3>1. PICK i \in row(c \div W) : i % W = c % W
      BY <2>2, <2>4
    <3>2. i \in Int /\ i \in C /\ i < kMaxCpus /\ i \div W = c \div W
      OBVIOUS
    <3>3. i = W * (i \div W) + (i % W)
      BY <1>5, <3>2
    <3> HIDE DEF row, set
    <3> QED
      BY <2>1, <3>1, <3>2, <3>3
  <2> QED
    BY <2>3, <2>4
<1> QED
  BY <1>4, <1>6, <1>7

LEMMA RangesAreNumbers == \A item : Cpus!ItemRange(item) \in SUBSET Int
BY DEF Cpus!ItemRange

-----------------------------------------------------------------------------
Tokens == {Cpus!Number(n) : n \in 0 .. 99} \cup {Cpus!Comma, Cpus!Dash, Cpus!Space}

LEMMA TokensDiffer ==
  /\ Cpus!Comma # Cpus!Space /\ Cpus!Dash # Cpus!Comma /\ Cpus!Dash # Cpus!Space
  /\ Cpus!Comma.is # "number" /\ Cpus!Dash.is # "number" /\ Cpus!Space.is # "number"
  /\ \A n : Cpus!Number(n).is = "number" /\ Cpus!Number(n).n = n
BY DEF Cpus!Comma, Cpus!Dash, Cpus!Space, Cpus!Number

LEMMA TokenIs ==
  ASSUME NEW t \in Tokens
  PROVE  /\ t.n \in 0 .. 99
         /\ t.is # "number" => t \in {Cpus!Comma, Cpus!Dash, Cpus!Space}
         /\ t.is = "number" => t = Cpus!Number(t.n)
<1>1. CASE \E n \in 0 .. 99 : t = Cpus!Number(n)
  BY <1>1, TokensDiffer
<1>2. CASE t \in {Cpus!Comma, Cpus!Dash, Cpus!Space}
  <2>1. t.n = 0
    BY <1>2 DEF Cpus!Comma, Cpus!Dash, Cpus!Space
  <2> QED
    BY <1>2, <2>1, TokensDiffer
<1> QED
  BY <1>1, <1>2 DEF Tokens

LEMMA FileIs ==
  ASSUME Cpus!CpuSetAssumption, NEW f \in Cpus!Files
  PROVE  f \in Seq(Tokens)
<1>1. PICK k \in 0 .. MaxFile :
        f \in [1 .. k -> {Cpus!Number(n) : n \in Numbers} \cup {Cpus!Comma, Cpus!Dash, Cpus!Space}]
  BY DEF Cpus!Files
<1>2. k \in Nat /\ Numbers \subseteq 0 .. 99
  BY DEF Cpus!CpuSetAssumption
<1>3. f \in [1 .. k -> Tokens]
  BY <1>1, <1>2 DEF Tokens
<1> QED
  BY <1>2, <1>3

\* The least and the greatest of some numbers.
LEMMA LeastIs ==
  ASSUME NEW S \in SUBSET Int, NEW x \in S, \A y \in S : x <= y
  PROVE  Cpus!Min(S) = x
<1>1. Cpus!Min(S) \in S /\ Cpus!Min(S) <= x /\ x <= Cpus!Min(S)
  BY DEF Cpus!Min
<1>2. x \in Int /\ Cpus!Min(S) \in Int
  BY <1>1
<1> QED
  BY <1>1, <1>2

LEMMA GreatestIs ==
  ASSUME NEW S \in SUBSET Int, NEW x \in S, \A y \in S : y <= x
  PROVE  Cpus!Max(S) = x
<1>1. Cpus!Max(S) \in S /\ Cpus!Max(S) <= x /\ x <= Cpus!Max(S)
  BY DEF Cpus!Max
<1>2. x \in Int /\ Cpus!Max(S) \in Int
  BY <1>1
<1> QED
  BY <1>1, <1>2

LEMMA GreatestNumber ==
  ASSUME NEW T \in SUBSET Nat, T # {}, NEW N \in Nat, \A y \in T : y <= N
  PROVE  \E x \in T : \A y \in T : y <= x
<1> DEFINE U == {u \in Nat : N - u \in T}
<1>1. U # {}
  <2>1. PICK y \in T : TRUE
    OBVIOUS
  <2>2. N - y \in Nat /\ N - (N - y) = y
    BY <2>1
  <2> QED
    BY <2>2
<1>2. PICK u \in U : \A v \in U : u <= v
  <2>1. U \in SUBSET Nat
    OBVIOUS
  <2> HIDE DEF U
  <2> QED
    BY <1>1, <2>1, LeastNumber
<1>3. N - u \in T /\ u \in Nat
  OBVIOUS
<1>4. ASSUME NEW y \in T PROVE y <= N - u
  <2>1. N - y \in Nat /\ N - (N - y) = y /\ y \in Nat
    OBVIOUS
  <2>2. N - y \in U
    BY <2>1
  <2>3. u <= N - y
    <3> HIDE DEF U
    <3> QED
      BY <1>2, <2>2
  <2> HIDE DEF U
  <2> QED
    BY <1>3, <2>1, <2>3
<1> HIDE DEF U
<1> QED
  BY <1>3, <1>4

\* A part of a sequence.
LEMMA PartIs ==
  ASSUME NEW T, NEW s \in Seq(T), NEW a \in Nat, NEW b \in Nat, 1 <= a, b <= Len(s), a <= b + 1
  PROVE  /\ SubSeq(s, a, b) \in Seq(T) /\ Len(SubSeq(s, a, b)) = b - a + 1
         /\ \A i \in 1 .. b - a + 1 : SubSeq(s, a, b)[i] = s[a + i - 1]
OBVIOUS

\* What read() leaves of a file is made of the same tokens.
LEMMA BufferIs ==
  ASSUME Cpus!CpuSetAssumption, NEW f \in Seq(Tokens)
  PROVE  Cpus!Buffer(f) \in Seq(Tokens)
<1> DEFINE N == Len(f)
           fit == {0} \cup {n \in 1 .. N : Cpus!Length(SubSeq(f, 1, n)) <= BufferSize}
           whole == Cpus!Max(fit)
           rest == <<Cpus!Number(f[whole + 1].n \div 10)>>
<1>1. N \in Nat /\ fit \in SUBSET Nat /\ 0 \in fit /\ \A y \in fit : y <= N
  OBVIOUS
<1>2. whole \in fit
  <2> HIDE DEF fit, N
  <2>1. PICK x \in fit : \A y \in fit : y <= x
    BY <1>1, GreatestNumber
  <2>2. fit \in SUBSET Int
    BY <1>1
  <2>3. Cpus!Max(fit) = x
    BY <2>1, <2>2, GreatestIs
  <2> QED
    BY <2>1, <2>3
<1>3. whole \in 0 .. N /\ whole <= N
  <2> HIDE DEF whole
  <2> QED
    BY <1>1, <1>2
<1>4. Cpus!Buffer(f) = SubSeq(f, 1, whole) \o (IF whole < N /\ Cpus!Length(SubSeq(f, 1, whole)) < BufferSize
                                             THEN rest ELSE << >>)
  BY DEF Cpus!Buffer
<1> HIDE DEF fit, whole
<1>5. SubSeq(f, 1, whole) \in Seq(Tokens)
  <2>1. whole \in Nat /\ 1 <= whole + 1
    BY <1>3
  <2>2. CASE whole = 0
    BY <2>2
  <2>3. CASE whole # 0
    BY <1>1, <1>3, <2>1, <2>3, PartIs
  <2> QED
    BY <2>2, <2>3
<1>6. ASSUME whole < N PROVE rest \in Seq(Tokens)
  <2>1. whole + 1 \in 1 .. N
    BY <1>1, <1>3, <1>6
  <2>2. f[whole + 1] \in Tokens
    BY <2>1
  <2>3. f[whole + 1].n \in 0 .. 99
    BY <2>2, TokenIs
  <2>4. f[whole + 1].n \div 10 \in 0 .. 99
    <3>1. \A n \in 0 .. 99 : n \div 10 \in 0 .. 99
      OBVIOUS
    <3> QED
      BY <2>3, <3>1
  <2>5. Cpus!Number(f[whole + 1].n \div 10) \in Tokens
    BY <2>4 DEF Tokens
  <2> QED
    BY <2>5
<1> HIDE DEF rest
<1>7. CASE whole < N /\ Cpus!Length(SubSeq(f, 1, whole)) < BufferSize
  BY <1>4, <1>5, <1>6, <1>7
<1>8. CASE ~(whole < N /\ Cpus!Length(SubSeq(f, 1, whole)) < BufferSize)
  <2>1. Cpus!Buffer(f) = SubSeq(f, 1, whole) \o << >>
    BY <1>4, <1>8
  <2> QED
    BY <1>5, <2>1
<1> QED
  BY <1>7, <1>8

LEMMA TrimmedIs ==
  ASSUME NEW T, NEW s \in Seq(T), NEW p \in 1 .. Len(s), NEW q \in 1 .. Len(s),
         s[p] # Cpus!Space, s[q] # Cpus!Space,
         \A k \in 1 .. Len(s) : s[k] # Cpus!Space => p <= k /\ k <= q
  PROVE  Cpus!Trimmed(s) = SubSeq(s, p, q)
<1> DEFINE inside == {j \in DOMAIN s : s[j] # Cpus!Space}
<1>1. inside \in SUBSET Int /\ p \in inside /\ q \in inside /\ \A y \in inside : p <= y /\ y <= q
  OBVIOUS
<1>2. Cpus!Trimmed(s) = IF inside = {} THEN << >> ELSE SubSeq(s, Cpus!Min(inside), Cpus!Max(inside))
  BY DEF Cpus!Trimmed
<1> HIDE DEF inside
<1>3. Cpus!Min(inside) = p /\ Cpus!Max(inside) = q
  BY <1>1, LeastIs, GreatestIs
<1> QED
  BY <1>1, <1>2, <1>3

\* Between two commas, or before the first, or behind the last.
Commas(f) == {0, Len(f) + 1} \cup {k \in DOMAIN f : f[k] = Cpus!Comma}
Between(f, i, j) ==
  /\ i \in Commas(f) /\ j \in Commas(f) /\ i < j
  /\ \A k \in Commas(f) : ~(i < k /\ k < j)

\* There is nothing but spaces.
Blank(f, i, j) == \A k \in 1 .. Len(f) : i < k /\ k < j => f[k] = Cpus!Space

\* There is a number, from p to q = p, or a range, from p to q = p + 2.
Shape(f, i, j, p, q) ==
  /\ p \in 1 .. Len(f) /\ q \in 1 .. Len(f) /\ i < p /\ p <= q /\ q < j
  /\ \A k \in 1 .. Len(f) : i < k /\ k < j => (f[k] # Cpus!Space <=> p <= k /\ k <= q)
  /\ f[p].is = "number" /\ f[q].is = "number"
  /\ q = p \/ (q = p + 2 /\ f[p + 1] = Cpus!Dash /\ f[p].n <= f[q].n)

LEMMA ShapeIs ==
  ASSUME Cpus!CpuSetAssumption, NEW f \in Seq(Tokens), Cpus!WellFormed(f), NEW i, NEW j, Between(f, i, j)
  PROVE  Blank(f, i, j) \/ \E p, q \in Nat : Shape(f, i, j, p, q)
<1> DEFINE N == Len(f)
           numbers == {k \in 1 .. N : i < k /\ k < j /\ f[k].is = "number"}
<1>1. /\ N \in Nat /\ i \in 0 .. N + 1 /\ j \in 0 .. N + 1 /\ i < j /\ DOMAIN f = 1 .. N
  BY DEF Between, Commas
<1>2. \A k \in 1 .. N : i < k /\ k < j => f[k] # Cpus!Comma
  BY DEF Between, Commas
<1>3. /\ i # 0 => i \in 1 .. N /\ f[i].is # "number"
      /\ j # N + 1 => j \in 1 .. N /\ f[j].is # "number"
  <2>1. i # 0 => i \in 1 .. N /\ f[i] = Cpus!Comma
    BY <1>1 DEF Between, Commas
  <2>2. j # N + 1 => j \in 1 .. N /\ f[j] = Cpus!Comma
    BY <1>1 DEF Between, Commas
  <2> QED
    BY <2>1, <2>2, TokensDiffer
<1> HIDE DEF N
<1>4. ASSUME NEW k \in 1 .. N, f[k] = Cpus!Dash
      PROVE  /\ k - 1 \in 1 .. N /\ k + 1 \in 1 .. N
             /\ f[k - 1].is = "number" /\ f[k + 1].is = "number" /\ f[k - 1].n <= f[k + 1].n
  <2>1. /\ 1 < k /\ k < N
        /\ f[k - 1].is = "number" /\ f[k + 1].is = "number" /\ f[k - 1].n <= f[k + 1].n
    BY <1>1, <1>4 DEF Cpus!WellFormed, N
  <2> QED
    BY <1>1, <2>1
<1>5. ASSUME NEW k \in 1 .. N, i < k, k < j, f[k] = Cpus!Dash
      PROVE  k - 1 \in numbers /\ k + 1 \in numbers
  <2>1. /\ k - 1 \in 1 .. N /\ k + 1 \in 1 .. N /\ f[k - 1].is = "number" /\ f[k + 1].is = "number"
    BY <1>4, <1>5
  <2>2. k - 1 # i /\ k + 1 # j
    BY <1>1, <1>3, <2>1
  <2>3. i < k - 1 /\ k - 1 < j /\ i < k + 1 /\ k + 1 < j
    BY <1>1, <1>5, <2>2
  <2> QED
    BY <2>1, <2>3
<1>6. ASSUME NEW k \in 1 .. N, i < k, k < j
      PROVE  f[k] = Cpus!Space \/ f[k] = Cpus!Dash \/ k \in numbers
  <2>1. f[k] \in Tokens
    BY DEF N
  <2>2. f[k].is = "number" \/ f[k] \in {Cpus!Comma, Cpus!Dash, Cpus!Space}
    BY <2>1, TokenIs
  <2> QED
    BY <1>2, <1>6, <2>2
<1>7. CASE numbers = {}
  <2>1. Blank(f, i, j)
    BY <1>5, <1>6, <1>7 DEF Blank, N
  <2> QED
    BY <2>1
<1>8. CASE numbers # {}
  <2>1. numbers \in SUBSET Nat /\ \A y \in numbers : y <= N
    BY <1>1
  <2>2. PICK p \in numbers, q \in numbers : \A y \in numbers : p <= y /\ y <= q
    <3> HIDE DEF numbers
    <3>1. PICK p \in numbers : \A y \in numbers : p <= y
      BY <1>8, <2>1, LeastNumber
    <3>2. PICK q \in numbers : \A y \in numbers : y <= q
      BY <1>1, <1>8, <2>1, GreatestNumber
    <3> QED
      BY <3>1, <3>2
  <2>3. /\ p \in 1 .. N /\ q \in 1 .. N /\ p <= q /\ i < p /\ p < j /\ i < q /\ q < j
        /\ f[p].is = "number" /\ f[q].is = "number"
    BY <2>2
  <2>4. p # q => q = p + 2 /\ f[p + 1] = Cpus!Dash
    <3> SUFFICES ASSUME p # q PROVE q = p + 2 /\ f[p + 1] = Cpus!Dash
      OBVIOUS
    <3>1. p < q
      BY <2>3
    <3>2. \A k \in 1 .. N : p < k /\ k < q => f[k] # Cpus!Comma
      BY <1>1, <1>2, <2>3
    <3> HIDE DEF numbers
    <3> QED
      BY <1>1, <2>3, <3>1, <3>2, Zenon DEF Cpus!WellFormed
  <2>5. ASSUME p # q PROVE f[p].n <= f[q].n
    <3>1. PICK k \in 1 .. N : k = p + 1
      BY <1>1, <2>3, <2>4, <2>5
    <3>2. k - 1 = p /\ k + 1 = q
      BY <2>3, <2>4, <2>5, <3>1
    <3> HIDE DEF numbers
    <3> QED
      BY <1>4, <2>4, <2>5, <3>1, <3>2
  <2>6. ASSUME NEW k \in 1 .. N, i < k, k < j PROVE f[k] # Cpus!Space <=> p <= k /\ k <= q
    <3>1. ASSUME k \in numbers PROVE f[k] # Cpus!Space /\ p <= k /\ k <= q
      BY <2>2, <3>1, TokensDiffer
    <3>2. ASSUME f[k] = Cpus!Dash PROVE f[k] # Cpus!Space /\ p <= k /\ k <= q
      <4>1. k - 1 \in numbers /\ k + 1 \in numbers
        BY <1>5, <2>6, <3>2
      <4>2. p <= k - 1 /\ k + 1 <= q
        <5> HIDE DEF numbers
        <5> QED
          BY <2>2, <4>1
      <4> QED
        BY <2>3, <3>2, <4>2, TokensDiffer
    <3>3. ASSUME p <= k, k <= q PROVE f[k] # Cpus!Space
      <4>1. CASE p = q
        BY <2>3, <3>3, <4>1, TokensDiffer
      <4>2. CASE p # q
        <5>1. k = p \/ k = p + 1 \/ k = q
          BY <2>3, <2>4, <3>3, <4>2
        <5> QED
          BY <2>3, <2>4, <4>2, <5>1, TokensDiffer
      <4> QED
        BY <4>1, <4>2
    <3> HIDE DEF numbers
    <3> QED
      BY <1>6, <2>6, <3>1, <3>2, <3>3
  <2>7. Shape(f, i, j, p, q)
    <3> HIDE DEF numbers
    <3> QED
      BY <2>3, <2>4, <2>5, <2>6 DEF Shape, N
  <2>8. p \in Nat /\ q \in Nat
    BY <2>3
  <2> QED
    BY <2>7, <2>8
<1> QED
  BY <1>7, <1>8

\* Nothing but spaces is an empty item, which is skipped.
LEMMA BlankIs ==
  ASSUME NEW f \in Seq(Tokens), NEW i, NEW j, Between(f, i, j), Blank(f, i, j)
  PROVE  Cpus!Trimmed(SubSeq(f, i + 1, j - 1)) = << >>
<1> DEFINE N == Len(f)
           s == SubSeq(f, i + 1, j - 1)
<1>1. N \in Nat /\ i \in 0 .. N + 1 /\ j \in 0 .. N + 1 /\ i < j
  BY DEF Between, Commas
<1>2. i + 1 \in Nat /\ j - 1 \in Nat /\ 1 <= i + 1 /\ j - 1 <= Len(f) /\ i + 1 <= (j - 1) + 1
      /\ (j - 1) - (i + 1) + 1 = j - 1 - i
  BY <1>1
<1>3. s \in Seq(Tokens) /\ Len(s) = j - 1 - i /\ \A k \in 1 .. j - 1 - i : s[k] = f[(i + 1) + k - 1]
  BY <1>2, PartIs
<1> HIDE DEF s, N
<1>4. ASSUME NEW k \in DOMAIN s PROVE s[k] = Cpus!Space
  <2>1. k \in 1 .. j - 1 - i
    BY <1>1, <1>3
  <2>2. (i + 1) + k - 1 \in 1 .. N /\ i < (i + 1) + k - 1 /\ (i + 1) + k - 1 < j
    BY <1>1, <2>1
  <2> QED
    BY <1>3, <2>1, <2>2 DEF Blank, N
<1>5. Cpus!Trimmed(s) = << >>
  BY <1>4 DEF Cpus!Trimmed
<1> QED
  BY <1>5 DEF s

LEMMA TailIs ==
  ASSUME NEW T, NEW s \in Seq(T), s # << >>
  PROVE  /\ Tail(s) \in Seq(T) /\ Len(Tail(s)) = Len(s) - 1
         /\ \A k \in 1 .. Len(s) - 1 : Tail(s)[k] = s[k + 1]
<1>1. Tail(s) \in Seq(T)
  OBVIOUS
<1>2. Len(Tail(s)) = Len(s) - 1
  OBVIOUS
<1>3. ASSUME NEW k \in 1 .. Len(s) - 1 PROVE Tail(s)[k] = s[k + 1]
  OBVIOUS
<1> QED
  BY <1>1, <1>2, <1>3

LEMMA LenOfNone == Len(<< >>) = 0
OBVIOUS

LEMMA OneOrThree ==
  ASSUME Cpus!CpuSetAssumption, NEW s \in Seq(Tokens), s # << >>, s[1].is = "number",
         \/ Len(s) = 1
         \/ Len(s) = 3 /\ s[2] = Cpus!Dash /\ s[3].is = "number"
  PROVE  Cpus!ItemRange(s) = s[1].n .. s[Len(s)].n
<1> DEFINE next == Tail(s)
<1>1. Cpus!AfterDecimal(s) = next /\ Cpus!Decimal(s) = s[1].n
  BY DEF Cpus!AfterDecimal, Cpus!Decimal
<1>2. CASE Len(s) = 1
  <2>1. next = << >>
    <3>1. next \in Seq(Tokens) /\ Len(next) = 1 - 1
      BY <1>2, TailIs
    <3> HIDE DEF next
    <3> QED
      BY <3>1
  <2> QED
    BY <1>1, <1>2, <2>1 DEF Cpus!ItemRange
<1>3. CASE Len(s) = 3 /\ s[2] = Cpus!Dash /\ s[3].is = "number"
  <2>1. next \in Seq(Tokens) /\ Len(next) = 2 /\ next # << >> /\ next[1] = s[2] /\ next[2] = s[3]
    <3>1. next \in Seq(Tokens) /\ Len(next) = 3 - 1 /\ \A k \in 1 .. 3 - 1 : next[k] = s[k + 1]
      BY <1>3, TailIs
    <3> HIDE DEF next
    <3> QED
      BY <3>1
  <2> HIDE DEF next
  <2>2. Tail(next) # << >> /\ Tail(next)[1] = s[3]
    <3>1. Tail(next) \in Seq(Tokens) /\ Len(Tail(next)) = 2 - 1 /\ \A k \in 1 .. 2 - 1 : Tail(next)[k] = next[k + 1]
      BY <2>1, TailIs
    <3>2. Len(Tail(next)) # 0 /\ Tail(next)[1] = next[1 + 1] /\ next[1 + 1] = next[2]
      BY <3>1
    <3>3. Tail(next) # << >>
      BY <3>2, LenOfNone, Zenon
    <3> QED
      BY <2>1, <3>2, <3>3
  <2>3. Cpus!Decimal(Tail(next)) = s[3].n
    BY <1>3, <2>2 DEF Cpus!Decimal
  <2> QED
    BY <1>1, <1>3, <2>1, <2>3 DEF Cpus!ItemRange
<1> QED
  BY <1>2, <1>3

\* What there is between two commas is an item.
LEMMA ItemIs ==
  ASSUME Cpus!CpuSetAssumption, NEW f \in Seq(Tokens), NEW i, NEW j, Between(f, i, j),
         NEW p \in Nat, NEW q \in Nat, Shape(f, i, j, p, q)
  PROVE  LET item == Cpus!Trimmed(SubSeq(f, i + 1, j - 1))
         IN item # << >> /\ Cpus!ItemRange(item) = f[p].n .. f[q].n
<1> DEFINE N == Len(f)
           s == SubSeq(f, i + 1, j - 1)
           item == SubSeq(s, p - i, q - i)
<1>1. N \in Nat /\ i \in 0 .. N + 1 /\ j \in 0 .. N + 1 /\ i < j
  BY DEF Between, Commas
<1>2. /\ p \in 1 .. N /\ q \in 1 .. N /\ i < p /\ p <= q /\ q < j
      /\ \A k \in 1 .. N : i < k /\ k < j => (f[k] # Cpus!Space <=> p <= k /\ k <= q)
      /\ f[p].is = "number" /\ f[q].is = "number"
      /\ q = p \/ (q = p + 2 /\ f[p + 1] = Cpus!Dash /\ f[p].n <= f[q].n)
  BY DEF Shape
<1>3. s \in Seq(Tokens) /\ Len(s) = j - 1 - i /\ \A k \in 1 .. j - 1 - i : s[k] = f[i + k]
  <2>1. i + 1 \in Nat /\ j - 1 \in Nat /\ 1 <= i + 1 /\ j - 1 <= Len(f) /\ i + 1 <= (j - 1) + 1
        /\ (j - 1) - (i + 1) + 1 = j - 1 - i
    BY <1>1
  <2>2. s \in Seq(Tokens) /\ Len(s) = j - 1 - i /\ \A k \in 1 .. j - 1 - i : s[k] = f[(i + 1) + k - 1]
    BY <2>1, PartIs
  <2>3. \A k \in 1 .. j - 1 - i : (i + 1) + k - 1 = i + k
    BY <1>1
  <2> HIDE DEF s
  <2> QED
    BY <2>2, <2>3
<1> HIDE DEF s, N
<1>0. p \in Int /\ q \in Int /\ i \in Int /\ j \in Int /\ i < p /\ p <= q /\ q < j
  BY <1>1, <1>2
<1>4. p - i \in 1 .. Len(s) /\ q - i \in 1 .. Len(s) /\ i + (p - i) = p /\ i + (q - i) = q
  BY <1>1, <1>2, <1>3
<1>5. s[p - i] = f[p] /\ s[q - i] = f[q]
  BY <1>3, <1>4
<1>6. \A k \in 1 .. Len(s) : s[k] # Cpus!Space => p - i <= k /\ k <= q - i
  <2> SUFFICES ASSUME NEW k \in 1 .. Len(s), s[k] # Cpus!Space PROVE p - i <= k /\ k <= q - i
    OBVIOUS
  <2>1. i + k \in 1 .. N /\ i < i + k /\ i + k < j /\ s[k] = f[i + k]
    BY <1>1, <1>3
  <2>2. p <= i + k /\ i + k <= q
    BY <1>2, <2>1
  <2> QED
    BY <1>1, <1>2, <2>2
<1>7. Cpus!Trimmed(s) = item
  <2>1. s[p - i] # Cpus!Space /\ s[q - i] # Cpus!Space
    BY <1>2, <1>5, TokensDiffer
  <2> QED
    BY <1>3, <1>4, <1>6, <2>1, TrimmedIs
<1>8. item \in Seq(Tokens) /\ Len(item) = q - p + 1 /\ \A k \in 1 .. q - p + 1 : item[k] = f[p + k - 1]
  <2>1. p - i \in Nat /\ q - i \in Nat /\ 1 <= p - i /\ q - i <= Len(s) /\ p - i <= (q - i) + 1
        /\ (q - i) - (p - i) + 1 = q - p + 1
    BY <1>1, <1>2, <1>4
  <2>2. item \in Seq(Tokens) /\ Len(item) = q - p + 1 /\ \A k \in 1 .. q - p + 1 : item[k] = s[(p - i) + k - 1]
    <3>1. PICK x \in Nat, y \in Nat : x = p - i /\ y = q - i
      BY <2>1
    <3>2. 1 <= x /\ y <= Len(s) /\ x <= y + 1 /\ y - x + 1 = q - p + 1
      BY <2>1, <3>1
    <3>3. /\ SubSeq(s, x, y) \in Seq(Tokens) /\ Len(SubSeq(s, x, y)) = y - x + 1
          /\ \A k \in 1 .. y - x + 1 : SubSeq(s, x, y)[k] = s[x + k - 1]
      BY <1>3, <3>2, PartIs
    <3> QED
      BY <3>1, <3>2, <3>3
  <2>3. \A k \in 1 .. q - p + 1 : (p - i) + k - 1 \in 1 .. j - 1 - i /\ i + ((p - i) + k - 1) = p + k - 1
    BY <1>0
  <2> HIDE DEF item
  <2> QED
    BY <1>3, <2>2, <2>3
<1> HIDE DEF item
<1>9. /\ item # << >> /\ item[1] = f[p] /\ item[Len(item)] = f[q]
      /\ Len(item) = 1 \/ (Len(item) = 3 /\ item[2] = Cpus!Dash /\ item[3] = f[q])
  <2>1. CASE q = p
    <3>1. q - p + 1 = 1 /\ p + 1 - 1 = p /\ 1 \in 1 .. q - p + 1
      BY <1>0, <2>1
    <3>2. Len(item) = 1 /\ Len(item) # 0 /\ item[1] = f[p]
      BY <1>8, <3>1
    <3>3. item # << >>
      BY <3>2, LenOfNone, Zenon
    <3> QED
      BY <2>1, <3>2, <3>3
  <2>2. CASE q = p + 2 /\ f[p + 1] = Cpus!Dash
    <3>1. q - p + 1 = 3 /\ p + 1 - 1 = p /\ p + 2 - 1 = p + 1 /\ p + 3 - 1 = q
          /\ 1 \in 1 .. q - p + 1 /\ 2 \in 1 .. q - p + 1 /\ 3 \in 1 .. q - p + 1
      BY <1>0, <2>2
    <3>2. Len(item) = 3 /\ item[1] = f[p] /\ item[2] = f[p + 1] /\ item[3] = f[q]
      BY <1>8, <3>1
    <3>3. item # << >>
      BY <3>2, LenOfNone
    <3> QED
      BY <2>2, <3>2, <3>3
  <2> QED
    BY <1>2, <2>1, <2>2
<1>10. Cpus!ItemRange(item) = f[p].n .. f[q].n
  BY <1>2, <1>8, <1>9, OneOrThree
<1> QED
  BY <1>7, <1>9, <1>10 DEF s

\* The next comma.
LEMMA NextIs ==
  ASSUME NEW f \in Seq(Tokens), NEW i \in Commas(f), i # Len(f) + 1
  PROVE  LET j == Cpus!Min({k \in Commas(f) : k > i}) IN Between(f, i, j)
<1> DEFINE after == {k \in Commas(f) : k > i}
           N == Len(f)
<1>1. N \in Nat /\ after \in SUBSET Nat /\ i \in 0 .. N /\ N + 1 \in after /\ Commas(f) \in SUBSET Nat
  BY DEF Commas
<1> HIDE DEF after
<1>2. PICK j \in after : \A y \in after : j <= y
  <2>1. after # {}
    BY <1>1
  <2> QED
    BY <1>1, <2>1, LeastNumber
<1>3. Cpus!Min(after) = j
  <2>1. after \in SUBSET Int
    BY <1>1
  <2> QED
    BY <1>2, <2>1, LeastIs
<1>4. j \in Commas(f) /\ j > i /\ j \in Nat /\ i \in Nat
  BY <1>1, <1>2 DEF after
<1>5. \A k \in Commas(f) : ~(i < k /\ k < j)
  <2> SUFFICES ASSUME NEW k \in Commas(f), i < k, k < j PROVE FALSE
    OBVIOUS
  <2>1. k \in Nat
    BY <1>1
  <2>2. k \in after
    BY <1>4, <2>1 DEF after
  <2> QED
    BY <1>2, <1>4, <2>1, <2>2
<1>6. Between(f, i, j)
  BY <1>4, <1>5 DEF Between
<1> QED
  BY <1>3, <1>6 DEF after

\* The commas before and behind a place.
LEMMA Enclosed ==
  ASSUME NEW f \in Seq(Tokens), NEW x \in 1 .. Len(f), f[x] # Cpus!Comma
  PROVE  \E i \in Commas(f) : /\ i # Len(f) + 1 /\ i < x
                              /\ \A j : Between(f, i, j) => x < j
<1> DEFINE before == {k \in Commas(f) : k < x}
           N == Len(f)
<1>1. N \in Nat /\ before \in SUBSET Nat /\ 0 \in before /\ (\A y \in before : y <= N)
      /\ Commas(f) \in SUBSET Nat /\ x \notin Commas(f) /\ x \in Nat /\ x <= N
  BY DEF Commas
<1> HIDE DEF before
<1>2. PICK i \in before : \A y \in before : y <= i
  <2>1. before # {}
    BY <1>1
  <2> QED
    BY <1>1, <2>1, GreatestNumber
<1>3. i \in Commas(f) /\ i < x /\ i \in Nat
  BY <1>1, <1>2 DEF before
<1>4. i # N + 1
  BY <1>1, <1>3
<1>5. ASSUME NEW j, Between(f, i, j) PROVE x < j
  <2>1. j \in Commas(f) /\ j \in Nat /\ i < j
    BY <1>1, <1>5 DEF Between
  <2>2. ~(j < x)
    <3> SUFFICES ASSUME j < x PROVE FALSE
      OBVIOUS
    <3>1. j \in before
      BY <2>1 DEF before
    <3> QED
      BY <1>2, <1>3, <2>1, <3>1
  <2> QED
    BY <1>1, <2>1, <2>2
<1> QED
  BY <1>3, <1>4, <1>5

\* What a text lists, at its places.
Lists(f, c, k) ==
  \/ f[k] = Cpus!Number(c)
  \/ f[k] = Cpus!Dash /\ f[k - 1].n <= c /\ c <= f[k + 1].n

\* Of a well formed text exactly what it lists is set.
LEMMA ParseIsRight ==
  ASSUME Cpus!CpuSetAssumption, NEW f \in Seq(Tokens), Cpus!WellFormed(f), NEW c \in Int
  PROVE  c \in UNION {Cpus!ItemRange(item) : item \in Cpus!Items(f)} <=> c \in Cpus!Listed(f)
<1> DEFINE N == Len(f)
           next(i) == Cpus!Min({k \in Commas(f) : k > i})
           item(i) == Cpus!Trimmed(SubSeq(f, i + 1, next(i) - 1))
<1>1. N \in Nat /\ DOMAIN f = 1 .. N
  OBVIOUS
<1>2. c \in Cpus!Listed(f) <=> c \in 0 .. 99 /\ \E k \in 1 .. N : Lists(f, c, k)
  BY <1>1 DEF Cpus!Listed, Lists
<1>3. Cpus!Items(f) = {item(i) : i \in Commas(f) \ {N + 1}} \ {<< >>}
  BY DEF Cpus!Items, Commas
<1>4. ASSUME NEW i \in Commas(f), i # N + 1
      PROVE  /\ Between(f, i, next(i))
             /\ \/ Blank(f, i, next(i)) /\ item(i) = << >>
                \/ \E p, q \in Nat : /\ Shape(f, i, next(i), p, q)
                                     /\ item(i) # << >> /\ Cpus!ItemRange(item(i)) = f[p].n .. f[q].n
  <2>1. Between(f, i, next(i))
    BY <1>4, NextIs
  <2> HIDE DEF next
  <2>2. CASE Blank(f, i, next(i))
    BY <2>1, <2>2, BlankIs
  <2>3. CASE \E p, q \in Nat : Shape(f, i, next(i), p, q)
    <3>1. PICK p \in Nat, q \in Nat : Shape(f, i, next(i), p, q)
      BY <2>3
    <3> QED
      BY <2>1, <3>1, ItemIs
  <2> QED
    BY <2>1, <2>2, <2>3, ShapeIs
<1> HIDE DEF item, next
<1>6. \A k \in 1 .. N : /\ f[k].n \in 0 .. 99
                        /\ f[k].is = "number" => f[k] = Cpus!Number(f[k].n)
  <2>1. \A k \in 1 .. N : f[k] \in Tokens
    OBVIOUS
  <2> QED
    BY <2>1, TokenIs
<1>7. ASSUME NEW i \in Commas(f), i # N + 1, NEW p \in Nat, NEW q \in Nat, Shape(f, i, next(i), p, q),
             c \in f[p].n .. f[q].n
      PROVE  c \in 0 .. 99 /\ \E k \in 1 .. N : Lists(f, c, k)
  <2>1. /\ p \in 1 .. N /\ q \in 1 .. N /\ p <= q /\ f[p].is = "number" /\ f[q].is = "number"
        /\ q = p \/ (q = p + 2 /\ f[p + 1] = Cpus!Dash)
    BY <1>7 DEF Shape
  <2>3. f[p].n \in 0 .. 99 /\ f[q].n \in 0 .. 99
    BY <1>6, <2>1
  <2>4. c \in 0 .. 99
    <3>1. PICK u \in 0 .. 99, v \in 0 .. 99 : u = f[p].n /\ v = f[q].n
      BY <2>3
    <3>2. c \in u .. v
      BY <1>7, <3>1
    <3> QED
      BY <3>2
  <2>5. CASE q = p
    <3>1. c = f[p].n
      BY <1>7, <2>3, <2>5
    <3>2. f[p] = Cpus!Number(c)
      BY <1>6, <2>1, <3>1
    <3> QED
      BY <2>1, <2>4, <3>2 DEF Lists
  <2>6. CASE q = p + 2 /\ f[p + 1] = Cpus!Dash
    <3>1. PICK k \in 1 .. N : k = p + 1 /\ k - 1 = p /\ k + 1 = q
      <4>1. p + 1 \in 1 .. N /\ (p + 1) - 1 = p /\ (p + 1) + 1 = q
        BY <1>1, <2>1, <2>6
      <4> QED
        BY <4>1
    <3>3. f[k - 1].n <= c /\ c <= f[k + 1].n
      BY <1>7, <2>3, <3>1
    <3> QED
      BY <2>4, <2>6, <3>1, <3>3 DEF Lists
  <2> QED
    BY <2>1, <2>5, <2>6
<1>8. ASSUME NEW k \in 1 .. N, Lists(f, c, k)
      PROVE  \E i \in Commas(f) \ {N + 1} : item(i) # << >> /\ c \in Cpus!ItemRange(item(i))
  <2>1. f[k] # Cpus!Comma /\ f[k] # Cpus!Space
    BY <1>8, TokensDiffer DEF Lists
  <2>3. PICK i \in Commas(f) : i # N + 1 /\ i < k /\ \A j : Between(f, i, j) => k < j
    BY <2>1, Enclosed
  <2>4. PICK p \in Nat, q \in Nat : /\ Shape(f, i, next(i), p, q) /\ k < next(i)
                                    /\ item(i) # << >> /\ Cpus!ItemRange(item(i)) = f[p].n .. f[q].n
    <3>1. k < next(i)
      BY <1>4, <2>3
    <3>2. ~Blank(f, i, next(i))
      BY <2>1, <2>3, <3>1 DEF Blank
    <3> QED
      BY <1>4, <2>3, <3>1, <3>2
  <2>5. /\ p \in 1 .. N /\ q \in 1 .. N /\ p <= q /\ f[p].is = "number" /\ f[q].is = "number"
        /\ \A x \in 1 .. N : i < x /\ x < next(i) => (f[x] # Cpus!Space <=> p <= x /\ x <= q)
        /\ q = p \/ (q = p + 2 /\ f[p + 1] = Cpus!Dash /\ f[p].n <= f[q].n)
    BY <2>4 DEF Shape
  <2>6. p <= k /\ k <= q
    BY <2>1, <2>3, <2>4, <2>5
  <2>7. f[p].n \in 0 .. 99 /\ f[q].n \in 0 .. 99
    BY <1>6, <2>5
  <2>8. c \in f[p].n .. f[q].n
    <3>1. CASE f[k] = Cpus!Number(c)
      <4>1. c = f[k].n /\ f[k].is = "number"
        BY <3>1, TokensDiffer
      <4>2. k = p \/ k = q
        <5>1. k # p + 1 \/ q = p
          BY <2>5, <4>1, TokensDiffer
        <5> QED
          BY <2>5, <2>6, <5>1
      <4> QED
        BY <2>5, <2>7, <4>1, <4>2
    <3>2. CASE f[k] = Cpus!Dash /\ f[k - 1].n <= c /\ c <= f[k + 1].n
      <4>1. k # p /\ k # q
        BY <2>5, <3>2, TokensDiffer
      <4>2. k - 1 = p /\ k + 1 = q
        BY <2>5, <2>6, <4>1
      <4> QED
        BY <2>7, <3>2, <4>2
    <3> QED
      BY <1>8, <3>1, <3>2 DEF Lists
  <2> QED
    BY <2>3, <2>4, <2>8
<1>9. c \in UNION {Cpus!ItemRange(it) : it \in Cpus!Items(f)}
        <=> \E i \in Commas(f) \ {N + 1} : item(i) # << >> /\ c \in Cpus!ItemRange(item(i))
  <2> HIDE DEF N
  <2> QED
    BY <1>3
<1>10. ASSUME NEW i \in Commas(f) \ {N + 1}, item(i) # << >>, c \in Cpus!ItemRange(item(i))
       PROVE  c \in 0 .. 99 /\ \E k \in 1 .. N : Lists(f, c, k)
  <2>1. PICK p \in Nat, q \in Nat : Shape(f, i, next(i), p, q) /\ Cpus!ItemRange(item(i)) = f[p].n .. f[q].n
    BY <1>4, <1>10
  <2>2. c \in f[p].n .. f[q].n
    BY <1>10, <2>1
  <2> QED
    BY <1>7, <2>1, <2>2
<1> QED
  BY <1>2, <1>8, <1>9, <1>10

LEMMA WordOfCpu ==
  ASSUME Cpus!CpuSetAssumption, NEW c \in Nat, c < kMaxCpus
  PROVE  c \div kMaskWordBits \in Cpus!Words
<1>1. PICK v \in Int : v = kMaskWordBits * Cpus!kMaskWordCount /\ kMaxCpus <= v /\ kMaxCpus \in Nat
  BY MaxFits
<1>2. c < kMaskWordBits * Cpus!kMaskWordCount
  BY <1>1
<1> QED
  BY <1>2, BitOfCpu

\* A mask has the bits of the processors its history tells, and none until its
\* file is parsed.
MaskIsMeant(m, h) ==
  /\ Low(m)
  /\ h.known => Means(m, h.cpus)
  /\ ~h.parsed => m = [nn \in Cpus!Words |-> {}] /\ h.cpus = {}
Histories == [parsed : BOOLEAN, known : BOOLEAN, cpus : SUBSET (0 .. 99)]

CpusIInv ==
  /\ mask_ \in [Cpus!Sets -> Masks]
  /\ meant \in [Cpus!Sets -> Histories]
  /\ count \in [of : Cpus!Sets, cpus : -1 .. kMaxCpus]
  /\ \A s \in Cpus!Sets : MaskIsMeant(mask_[s], meant[s])
  /\ Cpus!CountsWhatTheFilesList

LEMMA EmptyMask ==
  ASSUME Cpus!CpuSetAssumption
  PROVE  LET m == [nn \in Cpus!Words |-> {}] IN m \in Masks /\ Low(m) /\ Means(m, {})
<1> DEFINE m == [nn \in Cpus!Words |-> {}]
<1>1. m \in Masks /\ \A nn : nn \in Cpus!Words => m[nn] = {}
  BY DEF Masks
<1>2. Low(m)
  BY <1>1 DEF Low
<1>3. Means(m, {})
  <2> HIDE DEF m
  <2> QED
    BY <1>1, WordOfCpu DEF Means
<1> QED
  BY <1>1, <1>2, <1>3

LEMMA CpusBegin == ASSUME Cpus!CpuSetAssumption, Cpus!Init PROVE CpusIInv
<1>1. kMaxCpus \in Nat
  BY DEF Cpus!CpuSetAssumption
<1>2. mask_ \in [Cpus!Sets -> Masks] /\ \A s \in Cpus!Sets : mask_[s] = [nn \in Cpus!Words |-> {}]
  BY EmptyMask DEF Cpus!Init
<1>3. meant \in [Cpus!Sets -> Histories] /\ \A s \in Cpus!Sets : ~meant[s].known /\ meant[s].cpus = {}
  BY DEF Cpus!Init, Cpus!Unparsed, Histories
<1>4. count \in [of : Cpus!Sets, cpus : -1 .. kMaxCpus] /\ count.cpus = -1
  BY <1>1 DEF Cpus!Init, Cpus!NoCount, Cpus!Sets
<1>5. \A s \in Cpus!Sets : MaskIsMeant(mask_[s], meant[s])
  BY <1>2, <1>3, EmptyMask DEF MaskIsMeant
<1> QED
  BY <1>2, <1>3, <1>4, <1>5 DEF CpusIInv, Cpus!CountsWhatTheFilesList

\* What a step makes of one set, and it leaves nothing counted.
LEMMA OneChanges ==
  ASSUME Cpus!CpuSetAssumption, CpusIInv, NEW s \in Cpus!Sets, NEW m \in Masks, NEW h \in Histories,
         MaskIsMeant(m, h), mask_' = [mask_ EXCEPT ![s] = m], meant' = [meant EXCEPT ![s] = h],
         count' = Cpus!NoCount
  PROVE  CpusIInv'
<1>1. kMaxCpus \in Nat
  BY DEF Cpus!CpuSetAssumption
<1>2. mask_' \in [Cpus!Sets -> Masks] /\ \A t \in Cpus!Sets : mask_'[t] = IF t = s THEN m ELSE mask_[t]
  BY DEF CpusIInv
<1>3. meant' \in [Cpus!Sets -> Histories] /\ \A t \in Cpus!Sets : meant'[t] = IF t = s THEN h ELSE meant[t]
  BY DEF CpusIInv
<1>4. count' \in [of : Cpus!Sets, cpus : -1 .. kMaxCpus] /\ count'.cpus = -1
  BY <1>1 DEF Cpus!NoCount, Cpus!Sets
<1>5. \A t \in Cpus!Sets : MaskIsMeant(mask_'[t], meant'[t])
  BY <1>2, <1>3 DEF CpusIInv
<1>6. Cpus!CountsWhatTheFilesList'
  BY <1>4 DEF Cpus!CountsWhatTheFilesList
<1>7. \A t \in Cpus!Sets : MaskIsMeant(mask_[t], meant[t])'
  BY <1>5 DEF MaskIsMeant, Low, Means
<1> QED
  BY <1>2, <1>3, <1>4, <1>6, <1>7 DEF CpusIInv

LEMMA ParseKeeps ==
  ASSUME Cpus!CpuSetAssumption, CpusIInv, NEW s \in Cpus!Sets, NEW f \in Cpus!Files, Cpus!ParseSysFile(s, f)
  PROVE  CpusIInv'
<1> DEFINE U == UNION {Cpus!ItemRange(item) : item \in Cpus!Items(Cpus!Buffer(f))}
           m == Cpus!WithBits(mask_[s], U)
           known == Cpus!WellFormed(Cpus!Buffer(f))
           h == IF known
                THEN [parsed |-> TRUE, known |-> TRUE, cpus |-> Cpus!Listed(Cpus!Buffer(f))]
                ELSE [parsed |-> TRUE, known |-> FALSE, cpus |-> {}]
<1>1. mask_' = [mask_ EXCEPT ![s] = m] /\ meant' = [meant EXCEPT ![s] = h] /\ count' = Cpus!NoCount
  BY DEF Cpus!ParseSysFile, CpusIInv
<1>2. mask_[s] = [nn \in Cpus!Words |-> {}]
  BY DEF Cpus!ParseSysFile, CpusIInv, MaskIsMeant
<1>3. U \in SUBSET Int
  BY RangesAreNumbers
<1>4. m \in Masks /\ Low(m) /\ Means(m, U)
  <2> HIDE DEF U
  <2> QED
    BY <1>2, <1>3, BitsAreSet
<1>5. ASSUME known PROVE Means(m, Cpus!Listed(Cpus!Buffer(f)))
  <2>1. Cpus!Buffer(f) \in Seq(Tokens)
    BY FileIs, BufferIs
  <2>2. \A c \in Int : c \in U <=> c \in Cpus!Listed(Cpus!Buffer(f))
    BY <1>5, <2>1, ParseIsRight
  <2> HIDE DEF U, m
  <2> QED
    BY <1>4, <2>2 DEF Means
<1>6. h \in Histories /\ h.parsed /\ (h.known => known /\ h.cpus = Cpus!Listed(Cpus!Buffer(f)))
  <2>1. Cpus!Listed(Cpus!Buffer(f)) \in SUBSET (0 .. 99)
    BY DEF Cpus!Listed
  <2> HIDE DEF known
  <2>2. CASE known
    BY <2>1, <2>2 DEF Histories
  <2>3. CASE ~known
    BY <2>3 DEF Histories
  <2> QED
    BY <2>2, <2>3
<1> HIDE DEF h, m, U, known
<1>7. MaskIsMeant(m, h)
  BY <1>4, <1>5, <1>6 DEF MaskIsMeant
<1> QED
  BY <1>1, <1>4, <1>6, <1>7, OneChanges

LEMMA FailKeeps ==
  ASSUME Cpus!CpuSetAssumption, CpusIInv, NEW s \in Cpus!Sets, Cpus!ParseFails(s)
  PROVE  CpusIInv'
<1> DEFINE m == mask_[s]
           h == [parsed |-> TRUE, known |-> TRUE, cpus |-> {}]
<1>1. m = [nn \in Cpus!Words |-> {}] /\ meant[s].cpus = {} /\ meant[s] \in Histories
  BY DEF Cpus!ParseFails, CpusIInv, MaskIsMeant
<1>2. mask_' = [mask_ EXCEPT ![s] = m]
  BY DEF Cpus!ParseFails, CpusIInv
<1>3. meant' = [meant EXCEPT ![s] = h] /\ count' = Cpus!NoCount
  BY DEF Cpus!ParseFails
<1>4. m \in Masks /\ h \in Histories
  BY <1>1, EmptyMask DEF Histories
<1>5. MaskIsMeant(m, h)
  BY <1>1, EmptyMask DEF MaskIsMeant
<1> HIDE DEF m, h
<1> QED
  BY <1>2, <1>3, <1>4, <1>5, OneChanges

LEMMA IntersectKeeps ==
  ASSUME Cpus!CpuSetAssumption, CpusIInv, NEW s \in Cpus!Sets, NEW other \in Cpus!Sets,
         Cpus!IntersectWith(s, other)
  PROVE  CpusIInv'
<1> DEFINE m == [nn \in Cpus!Words |-> mask_[s][nn] \cap mask_[other][nn]]
           k == meant[s].known /\ meant[other].known
           h == [parsed |-> TRUE, known |-> k, cpus |-> meant[s].cpus \cap meant[other].cpus]
<1>1. /\ mask_[s] \in Masks /\ mask_[other] \in Masks
      /\ meant[s] \in Histories /\ meant[other] \in Histories /\ meant[s].parsed
      /\ MaskIsMeant(mask_[s], meant[s]) /\ MaskIsMeant(mask_[other], meant[other])
  BY DEF CpusIInv, Cpus!IntersectWith
<1>2. mask_' = [mask_ EXCEPT ![s] = m] /\ count' = Cpus!NoCount
  BY DEF Cpus!IntersectWith, CpusIInv
<1>3. meant' = [meant EXCEPT ![s] = h]
  BY DEF Cpus!IntersectWith
<1>4. m \in Masks
  BY <1>1 DEF Masks
<1>5. h \in Histories
  BY <1>1 DEF Histories
<1>6. Low(m)
  BY <1>1 DEF MaskIsMeant, Low
<1>7. ASSUME k PROVE Means(m, meant[s].cpus \cap meant[other].cpus)
  <2> SUFFICES ASSUME NEW c \in Nat, c < kMaxCpus
               PROVE  c % kMaskWordBits \in m[c \div kMaskWordBits]
                        <=> c \in meant[s].cpus \cap meant[other].cpus
    BY DEF Means
  <2>1. c \div kMaskWordBits \in Cpus!Words
    BY WordOfCpu
  <2>2. /\ c % kMaskWordBits \in mask_[s][c \div kMaskWordBits] <=> c \in meant[s].cpus
        /\ c % kMaskWordBits \in mask_[other][c \div kMaskWordBits] <=> c \in meant[other].cpus
    BY <1>1, <1>7 DEF MaskIsMeant, Means
  <2> QED
    BY <2>1, <2>2
<1>8. MaskIsMeant(m, h)
  <2>1. h.parsed = TRUE /\ h.known = k /\ h.cpus = meant[s].cpus \cap meant[other].cpus
    OBVIOUS
  <2> HIDE DEF h, k, m
  <2> QED
    BY <1>6, <1>7, <2>1 DEF MaskIsMeant
<1> HIDE DEF m, h
<1> QED
  BY <1>2, <1>3, <1>4, <1>5, <1>8, OneChanges

LEMMA CountKeeps ==
  ASSUME Cpus!CpuSetAssumption, CpusIInv, NEW s \in Cpus!Sets, Cpus!GetCount(s)
  PROVE  CpusIInv'
<1>1. count' = [of |-> s, cpus |-> CountOf(mask_[s])] /\ UNCHANGED <<mask_, meant>>
  BY DEF Cpus!GetCount, CountOf
<1>2. mask_[s] \in Masks /\ meant[s] \in Histories /\ MaskIsMeant(mask_[s], meant[s])
  BY DEF CpusIInv
<1>3. /\ CountOf(mask_[s]) \in 0 .. kMaxCpus
      /\ \A C \in SUBSET Nat : Means(mask_[s], C) => CountOf(mask_[s]) = Cpus!Cardinality({c \in C : c < kMaxCpus})
  BY <1>2, CountIsOfMeant DEF MaskIsMeant
<1>4. meant[s].known => CountOf(mask_[s]) = Cpus!Cardinality({c \in meant[s].cpus : c < kMaxCpus})
  <2>1. meant[s].cpus \in SUBSET Nat
    BY <1>2 DEF Histories
  <2> QED
    BY <1>2, <1>3, <2>1 DEF MaskIsMeant
<1>5. count'.of = s /\ count'.cpus = CountOf(mask_[s])
  BY <1>1
<1>6. Cpus!CountsWhatTheFilesList'
  BY <1>1, <1>4, <1>5 DEF Cpus!CountsWhatTheFilesList
<1>7. count' \in [of : Cpus!Sets, cpus : -1 .. kMaxCpus]
  <2>1. CountOf(mask_[s]) \in -1 .. kMaxCpus
    BY <1>3
  <2> QED
    BY <1>1, <2>1
<1>8. mask_' = mask_ /\ meant' = meant
  BY <1>1
<1>9. \A t \in Cpus!Sets : MaskIsMeant(mask_[t], meant[t])'
  BY <1>8 DEF CpusIInv, MaskIsMeant, Low, Means
<1> QED
  BY <1>6, <1>7, <1>8, <1>9 DEF CpusIInv

LEMMA CpusKeep ==
  ASSUME Cpus!CpuSetAssumption, CpusIInv, Cpus!Next PROVE CpusIInv'
BY ParseKeeps, FailKeeps, IntersectKeeps, CountKeeps DEF Cpus!Next

\* An empty mask to begin with; what the files list is counted, each processor
\* once, up to kMaxCpus, whatever their order, spaces and empty items.
LEMMA CpusInductive == Spec => []CpusIInv
<1>1. Init => CpusIInv
  BY CpusBegin, DumpReadersAssumption DEF Init
<1>2. CpusIInv /\ [Next]_vars => CpusIInv'
  <2> SUFFICES ASSUME CpusIInv, [Next]_vars PROVE CpusIInv'
    OBVIOUS
  <2>1. CASE UNCHANGED cpus
    BY <2>1 DEF cpus, CpusIInv, Cpus!CountsWhatTheFilesList, MaskIsMeant, Low, Means
  <2>2. CASE Cpus!Next
    BY <2>2, CpusKeep, DumpReadersAssumption
  <2> QED
    BY <2>1, <2>2 DEF Next, On, vars
<1> QED
  BY <1>1, <1>2, PTL DEF Spec

LEMMA CpusAreTyped == CpusIInv => Cpus!TypeOK
BY DEF CpusIInv, Cpus!TypeOK, Masks, Histories

\* Whatever is asked of the cursor, and for any files of processors, any number
\* of processors and any width of words, in any order of parsing, of
\* intersecting and of counting: what the readers return is what the bytes and
\* the files say.
THEOREM ReadersAreRight == Spec => []ReadersTellTheTruth
<1>1. CpusIInv => Cpus!TypeOK /\ Cpus!CountsWhatTheFilesList
  BY CpusAreTyped DEF CpusIInv
<1>2. (/\ Cursor!TypeOK /\ Cursor!NothingAfterAFailure /\ Cursor!CompleteMeansAll
       /\ Cursor!NumbersAreRight /\ Cursor!StringsAreRight)
      /\ (Cpus!TypeOK /\ Cpus!CountsWhatTheFilesList) => ReadersTellTheTruth
  BY DEF ReadersTellTheTruth
<1> QED
  BY <1>1, <1>2, CursorsAreRight, CpusInductive, PTL
-----------------------------------------------------------------------------
Bits(f, x, y) ==
  IF x = 0 \/ y = 0 THEN 0 ELSE 2 * f[x \div 2][y \div 2] + (x % 2) * (y % 2)

LEMMA HalfIsLess ==
  ASSUME NEW x \in Nat
  PROVE  /\ x \div 2 \in Nat /\ x % 2 \in {0, 1} /\ x = 2 * (x \div 2) + (x % 2)
         /\ x # 0 => x \div 2 < x
<1>1. x \div 2 \in Nat /\ x % 2 \in {0, 1}
  OBVIOUS
<1>2. x = 2 * (x \div 2) + (x % 2)
  OBVIOUS
<1>3. x # 0 => x \div 2 < x
  OBVIOUS
<1> QED
  BY <1>1, <1>2, <1>3

\* The recursion over the halves of a value comes to an end.
LEMMA AndBelow ==
  ASSUME EvaluatorValues \in Nat
  PROVE  \A n \in Nat : \E f : \A x, y \in Postfix!Value : x < n => f[x][y] = Bits(f, x, y)
<1> DEFINE Good(n, f) == \A x, y \in Postfix!Value : x < n => f[x][y] = Bits(f, x, y)
           Bad == {n \in Nat : ~ \E f : Good(n, f)}
<1>1. SUFFICES ASSUME Bad # {} PROVE FALSE
  OBVIOUS
<1>2. PICK n \in Bad : \A m \in Bad : n <= m
  <2> HIDE DEF Bad
  <2>1. Bad \in SUBSET Nat
    BY DEF Bad
  <2> QED
    BY <1>1, <2>1, LeastNumber
<1>3. Good(0, 0)
  BY DEF Postfix!Value
<1>4. n \in Nat /\ n # 0 /\ n - 1 \in Nat /\ n - 1 \notin Bad
  <2>1. n \in Nat /\ n # 0
    BY <1>3
  <2> QED
    BY <1>2, <2>1
<1>5. PICK g : Good(n - 1, g)
  BY <1>4
<1> DEFINE f == [x \in Postfix!Value |-> [y \in Postfix!Value |->
                   IF x < n - 1 THEN g[x][y] ELSE Bits(g, x, y)]]
<1>6. ASSUME NEW x \in Postfix!Value, NEW y \in Postfix!Value, x < n
      PROVE  f[x][y] = Bits(f, x, y)
  <2>1. x \in Nat /\ y \in Nat
    BY DEF Postfix!Value
  <2>2. /\ x \div 2 \in Postfix!Value /\ y \div 2 \in Postfix!Value
        /\ x # 0 => x \div 2 < n - 1
    BY <1>4, <1>6, <2>1, HalfIsLess DEF Postfix!Value
  <2>3. f[x][y] = Bits(g, x, y)
    BY <1>5
  <2>4. Bits(f, x, y) = Bits(g, x, y)
    <3>1. x # 0 => f[x \div 2][y \div 2] = g[x \div 2][y \div 2]
      BY <2>2
    <3> HIDE DEF f
    <3> QED
      BY <3>1 DEF Bits
  <2> QED
    BY <2>3, <2>4
<1>7. Good(n, f)
  BY <1>6
<1> QED
  BY <1>2, <1>7

\* So And is what its definition says.
LEMMA AndIsDefined ==
  ASSUME EvaluatorValues \in Nat, NEW x \in Postfix!Value, NEW y \in Postfix!Value
  PROVE  Postfix!And[x][y] = Bits(Postfix!And, x, y)
<1> DEFINE F(f) == [a \in Postfix!Value |-> [b \in Postfix!Value |-> Bits(f, a, b)]]
<1>1. PICK g : \A a, b \in Postfix!Value : a < EvaluatorValues => g[a][b] = Bits(g, a, b)
  BY AndBelow
<1>2. ASSUME NEW a \in Postfix!Value, NEW b \in Postfix!Value
      PROVE  a \div 2 \in Postfix!Value /\ b \div 2 \in Postfix!Value /\ a < EvaluatorValues
  BY <1>2 DEF Postfix!Value
<1> DEFINE h == [a \in Postfix!Value |-> [b \in Postfix!Value |-> g[a][b]]]
<1>3. ASSUME NEW a \in Postfix!Value, NEW b \in Postfix!Value PROVE h[a][b] = Bits(h, a, b)
  <2>1. Bits(h, a, b) = Bits(g, a, b)
    BY <1>2 DEF Bits
  <2> QED
    BY <1>1, <1>2, <2>1
<1>4. h = F(h)
  <2>1. \A a, b \in Postfix!Value : g[a][b] = Bits(h, a, b)
    BY <1>3
  <2> DEFINE k == h
  <2>2. h = [a \in Postfix!Value |-> [b \in Postfix!Value |-> Bits(k, a, b)]]
    <3> HIDE DEF k
    <3> QED
      BY <2>1 DEF k
  <2> QED
    BY <2>2
<1>5. Postfix!And = F(Postfix!And)
  <2>1. Postfix!And = CHOOSE f : f = F(f)
    BY DEF Postfix!And, Bits
  <2> HIDE DEF h, F
  <2> QED
    BY <1>4, <2>1
<1> QED
  BY <1>5

LEMMA AndIsAValue ==
  ASSUME EvaluatorValues \in Nat
  PROVE  \A x, y \in Postfix!Value : Postfix!And[x][y] \in Postfix!Value
<1> DEFINE Bad == {x \in Postfix!Value : \E y \in Postfix!Value : Postfix!And[x][y] \notin 0 .. x}
<1>1. SUFFICES ASSUME Bad # {} PROVE FALSE
  BY DEF Postfix!Value
<1>2. PICK x \in Bad : \A z \in Bad : x <= z
  <2> HIDE DEF Bad
  <2>1. Bad \in SUBSET Nat
    BY DEF Bad, Postfix!Value
  <2> QED
    BY <1>1, <2>1, LeastNumber
<1>3. PICK y \in Postfix!Value : Postfix!And[x][y] \notin 0 .. x
  OBVIOUS
<1>4. x \in Postfix!Value /\ x \in Nat /\ y \in Nat
  BY DEF Postfix!Value
<1>5. Postfix!And[x][y] = Bits(Postfix!And, x, y)
  BY <1>4, AndIsDefined
<1>6. x # 0 /\ y # 0
  BY <1>3, <1>4, <1>5 DEF Bits
<1> DEFINE a == Postfix!And[x \div 2][y \div 2]
           b == (x % 2) * (y % 2)
           c == x % 2
           d == x \div 2
<1>7. x = 2 * d + c /\ d \in Nat /\ c \in {0, 1} /\ d < x
  BY <1>4, <1>6, HalfIsLess
<1>8. a \in 0 .. d
  <2>1. d \in Postfix!Value /\ y \div 2 \in Postfix!Value
    BY <1>4, HalfIsLess DEF Postfix!Value
  <2>2. d \notin Bad
    <3> HIDE DEF Bad
    <3> QED
      BY <1>2, <1>4, <1>7
  <2> QED
    BY <2>1, <2>2
<1>9. b \in 0 .. c
  <2>1. y % 2 \in {0, 1}
    BY <1>4, HalfIsLess
  <2> QED
    BY <1>7, <2>1
<1>10. Postfix!And[x][y] = 2 * a + b
  BY <1>5, <1>6 DEF Bits
<1>11. 2 * a + b \in 0 .. x
  <2> HIDE DEF a, b, c, d, Bad
  <2> QED
    BY <1>4, <1>7, <1>8, <1>9
<1> QED
  BY <1>3, <1>10, <1>11

\* One step of the recursion that finds the term a token ends.
TermBody(T, e, g, mem, n) ==
  IF n = 0 THEN {}
  ELSE LET t == e[n]
       IN IF Postfix!IsLiteral(t) THEN {[from |-> n, value |-> t.literal % EvaluatorValues]}
          ELSE IF Postfix!IsIdentifier(t)
          THEN {[from |-> n, value |-> g[i]] : i \in DOMAIN g \cap {t.identifier}}
          ELSE IF t = Postfix!Operator("^")
          THEN {[from |-> u.from, value |-> mem[u.value]] : u \in {v \in T[n - 1] : v.value \in DOMAIN mem}}
          ELSE UNION {{[from |-> left.from, value |-> Postfix!Apply(t.operator, left.value, right.value)] :
                         left \in T[right.from - 1]} : right \in T[n - 1]}

TermsOf(e, g, mem) == CHOOSE T : T = [n \in 0 .. Len(e) |-> TermBody(T, e, g, mem, n)]

LEMMA TermIsTermsOf ==
  /\ Postfix!Term = TermsOf(expression, given, memory)
  /\ Postfix!Term' = TermsOf(expression', given', memory')
BY DEF Postfix!Term, TermsOf, TermBody

\* Terms end where they end: they begin at one of the tokens before.
Begins(T, n) == \A t \in T[n] : t.from \in 1 .. n

\* A term is made of terms that end before it.
LEMMA TermIsOfTermsBefore ==
  ASSUME NEW T, NEW U, NEW e, NEW f, NEW g, NEW mem, NEW n \in Nat,
         \A m \in 0 .. n - 1 : T[m] = U[m] /\ Begins(T, m), e[n] = f[n]
  PROVE  /\ TermBody(T, e, g, mem, n) = TermBody(U, f, g, mem, n)
         /\ \A t \in TermBody(T, e, g, mem, n) : t.from \in 1 .. n
<1>1. CASE n = 0
  BY <1>1 DEF TermBody
<1>2. CASE n # 0
  <2>1. n - 1 \in 0 .. n - 1 /\ T[n - 1] = U[n - 1] /\ n \in 1 .. n
    BY <1>2
  <2>2. \A r \in T[n - 1] : r.from \in 1 .. n - 1 /\ r.from \in 1 .. n
    BY <1>2, <2>1 DEF Begins
  <2>3. \A r \in T[n - 1] : r.from - 1 \in 0 .. n - 1 /\ T[r.from - 1] = U[r.from - 1]
    BY <1>2, <2>2
  <2>4. \A r \in T[n - 1] : \A l \in T[r.from - 1] : l.from \in 1 .. n
    BY <1>2, <2>2, <2>3 DEF Begins
  <2> DEFINE t == e[n]
  <2>5. CASE Postfix!IsLiteral(t)
    BY <1>2, <2>1, <2>5 DEF TermBody
  <2>6. CASE ~Postfix!IsLiteral(t) /\ Postfix!IsIdentifier(t)
    BY <1>2, <2>1, <2>6 DEF TermBody
  <2>7. CASE ~Postfix!IsLiteral(t) /\ ~Postfix!IsIdentifier(t) /\ t = Postfix!Operator("^")
    BY <1>2, <2>1, <2>2, <2>7 DEF TermBody
  <2>8. CASE ~Postfix!IsLiteral(t) /\ ~Postfix!IsIdentifier(t) /\ t # Postfix!Operator("^")
    <3>1. TermBody(T, e, g, mem, n) =
            UNION {{[from |-> l.from, value |-> Postfix!Apply(t.operator, l.value, r.value)] :
                         l \in T[r.from - 1]} : r \in T[n - 1]}
      BY <1>2, <2>8 DEF TermBody
    <3>2. TermBody(U, f, g, mem, n) =
            UNION {{[from |-> l.from, value |-> Postfix!Apply(t.operator, l.value, r.value)] :
                         l \in U[r.from - 1]} : r \in U[n - 1]}
      BY <1>2, <2>8 DEF TermBody
    <3>3. TermBody(U, f, g, mem, n) = TermBody(T, e, g, mem, n)
      BY <2>1, <2>3, <3>1, <3>2
    <3>4. \A x \in TermBody(T, e, g, mem, n) : x.from \in 1 .. n
      BY <2>4, <3>1
    <3> QED
      BY <3>3, <3>4
  <2> QED
    BY <2>5, <2>6, <2>7, <2>8
<1> QED
  BY <1>1, <1>2

AreTermsBelow(T, e, g, mem, n) ==
  \A m \in 0 .. n - 1 : T[m] = TermBody(T, e, g, mem, m) /\ Begins(T, m)

\* So the recursion comes to an end.
LEMMA TermsBelow ==
  ASSUME NEW e, NEW g, NEW mem
  PROVE  \A n \in Nat : \E T : AreTermsBelow(T, e, g, mem, n)
<1> USE DEF AreTermsBelow
<1> DEFINE Bad == {n \in Nat : ~ \E T : AreTermsBelow(T, e, g, mem, n)}
<1>1. SUFFICES ASSUME Bad # {} PROVE FALSE
  OBVIOUS
<1>2. PICK n \in Bad : \A m \in Bad : n <= m
  <2> HIDE DEF Bad
  <2>1. Bad \in SUBSET Nat
    BY DEF Bad
  <2> QED
    BY <1>1, <2>1, LeastNumber
<1>3. AreTermsBelow(0, e, g, mem, 0)
  OBVIOUS
<1>4. n \in Nat /\ n # 0 /\ n - 1 \in Nat /\ n - 1 \notin Bad
  <2>1. n \in Nat /\ n # 0
    BY <1>3
  <2> QED
    BY <1>2, <2>1
<1>5. PICK T : AreTermsBelow(T, e, g, mem, n - 1)
  BY <1>4
<1> DEFINE U == [m \in 0 .. n - 1 |-> IF m < n - 1 THEN T[m] ELSE TermBody(T, e, g, mem, m)]
<1>6. ASSUME NEW m \in 0 .. n - 1 PROVE U[m] = TermBody(U, e, g, mem, m) /\ Begins(U, m)
  <2>1. U[m] = TermBody(T, e, g, mem, m)
    BY <1>5, <1>4
  <2>2. \A k \in 0 .. m - 1 : T[k] = U[k] /\ Begins(T, k)
    BY <1>4, <1>5
  <2>3. m \in Nat
    BY <1>4
  <2> HIDE DEF U
  <2>4. /\ TermBody(T, e, g, mem, m) = TermBody(U, e, g, mem, m)
        /\ \A t \in TermBody(T, e, g, mem, m) : t.from \in 1 .. m
    BY <2>2, <2>3, TermIsOfTermsBefore
  <2> QED
    BY <2>1, <2>4 DEF Begins
<1>7. AreTermsBelow(U, e, g, mem, n)
  BY <1>6
<1> QED
  BY <1>2, <1>7

LEMMA TermsAreDefined ==
  ASSUME NEW e, NEW g, NEW mem, Len(e) \in Nat
  PROVE  \A m \in 0 .. Len(e) : TermsOf(e, g, mem)[m] = TermBody(TermsOf(e, g, mem), e, g, mem, m)
<1> DEFINE F(T) == [m \in 0 .. Len(e) |-> TermBody(T, e, g, mem, m)]
           D == 0 .. Len(e)
<1>1. PICK T : \A m \in D : T[m] = TermBody(T, e, g, mem, m) /\ Begins(T, m)
  <2>1. Len(e) + 1 \in Nat /\ 0 .. (Len(e) + 1) - 1 = D
    OBVIOUS
  <2>2. PICK T : AreTermsBelow(T, e, g, mem, Len(e) + 1)
    BY <2>1, TermsBelow
  <2> QED
    BY <2>1, <2>2 DEF AreTermsBelow
<1> DEFINE U == [m \in D |-> T[m]]
<1>2. ASSUME NEW m \in D PROVE U[m] = TermBody(U, e, g, mem, m)
  <2>1. m \in Nat /\ \A k \in 0 .. m - 1 : T[k] = U[k] /\ Begins(T, k)
    BY <1>1
  <2>2. U[m] = TermBody(T, e, g, mem, m)
    BY <1>1
  <2> HIDE DEF U
  <2>3. TermBody(T, e, g, mem, m) = TermBody(U, e, g, mem, m)
    BY <2>1, TermIsOfTermsBefore
  <2> QED
    BY <2>2, <2>3
<1>3. U = F(U)
  <2>1. \A m \in D : T[m] = TermBody(U, e, g, mem, m)
    BY <1>2
  <2> DEFINE k == U
  <2>2. U = [m \in D |-> TermBody(k, e, g, mem, m)]
    <3> HIDE DEF k
    <3> QED
      BY <2>1 DEF k
  <2> QED
    BY <2>2
<1>4. TermsOf(e, g, mem) = F(TermsOf(e, g, mem))
  <2>1. TermsOf(e, g, mem) = CHOOSE T1 : T1 = F(T1)
    BY DEF TermsOf
  <2> HIDE DEF U, F
  <2> QED
    BY <1>3, <2>1
<1> QED
  BY <1>4

\* Terms begin at a token up to their own.
LEMMA TermsBegin ==
  ASSUME NEW e, NEW g, NEW mem, Len(e) \in Nat
  PROVE  \A m \in 0 .. Len(e) : Begins(TermsOf(e, g, mem), m)
<1> DEFINE T == TermsOf(e, g, mem)
           Bad == {m \in 0 .. Len(e) : ~Begins(T, m)}
<1>1. SUFFICES ASSUME Bad # {} PROVE FALSE
  OBVIOUS
<1>2. PICK n \in Bad : \A m \in Bad : n <= m
  <2> HIDE DEF Bad
  <2>1. Bad \in SUBSET Nat
    BY DEF Bad
  <2> QED
    BY <1>1, <2>1, LeastNumber
<1>3. n \in Nat /\ n \in 0 .. Len(e)
  OBVIOUS
<1>4. \A m \in 0 .. n - 1 : T[m] = T[m] /\ Begins(T, m)
  <2> SUFFICES ASSUME NEW m \in 0 .. n - 1 PROVE Begins(T, m)
    OBVIOUS
  <2>1. m \in 0 .. Len(e) /\ ~(n <= m)
    BY <1>3
  <2>2. m \notin Bad
    <3> HIDE DEF Bad
    <3> QED
      BY <1>2, <2>1
  <2> QED
    BY <2>1, <2>2
<1>5. T[n] = TermBody(T, e, g, mem, n)
  BY <1>3, TermsAreDefined
<1>6. \A t \in TermBody(T, e, g, mem, n) : t.from \in 1 .. n
  <2> HIDE DEF T
  <2> QED
    BY <1>3, <1>4, TermIsOfTermsBefore
<1> QED
  BY <1>3, <1>5, <1>6 DEF Begins

IsBeginning(e, f) ==
  /\ Len(e) \in Nat /\ Len(f) \in Nat /\ Len(e) <= Len(f)
  /\ \A m \in 1 .. Len(e) : e[m] = f[m]

\* What comes after a term does not change it.
LEMMA TermsStay ==
  ASSUME NEW e, NEW f, NEW g, NEW mem, IsBeginning(e, f)
  PROVE  \A m \in 0 .. Len(e) : TermsOf(f, g, mem)[m] = TermsOf(e, g, mem)[m]
<1> USE DEF IsBeginning
<1> DEFINE T == TermsOf(e, g, mem)
           U == TermsOf(f, g, mem)
           Bad == {m \in 0 .. Len(e) : U[m] # T[m]}
<1>1. SUFFICES ASSUME Bad # {} PROVE FALSE
  OBVIOUS
<1>2. PICK n \in Bad : \A m \in Bad : n <= m
  <2> HIDE DEF Bad
  <2>1. Bad \in SUBSET Nat
    BY DEF Bad
  <2> QED
    BY <1>1, <2>1, LeastNumber
<1>3. n \in Nat /\ n \in 0 .. Len(e) /\ n \in 0 .. Len(f)
  OBVIOUS
<1>4. \A m \in 0 .. n - 1 : T[m] = U[m] /\ Begins(T, m)
  <2> SUFFICES ASSUME NEW m \in 0 .. n - 1 PROVE T[m] = U[m] /\ Begins(T, m)
    OBVIOUS
  <2>1. m \in 0 .. Len(e) /\ ~(n <= m)
    BY <1>3
  <2>2. m \notin Bad
    <3> HIDE DEF Bad
    <3> QED
      BY <1>2, <2>1
  <2>3. Begins(T, m)
    BY <2>1, TermsBegin
  <2> QED
    BY <2>1, <2>2, <2>3
<1>5. T[n] = TermBody(T, e, g, mem, n) /\ U[n] = TermBody(U, f, g, mem, n)
  BY <1>3, TermsAreDefined
<1>6. TermBody(T, e, g, mem, n) = TermBody(U, f, g, mem, n)
  <2> HIDE DEF T, U, Bad
  <2>1. CASE n = 0
    BY <2>1 DEF TermBody
  <2>2. CASE n # 0
    <3>1. e[n] = f[n]
      BY <1>3, <2>2
    <3> QED
      BY <1>3, <1>4, <3>1, TermIsOfTermsBefore
  <2> QED
    BY <2>1, <2>2
<1> QED
  BY <1>5, <1>6

\* While an expression without assignments is evaluated, the stack has its
\* terms, one after another: where each ends, and that it has its value.
StackTerms(ends) ==
  /\ ends[0] = 0 /\ ends[Len(stack)] = Len(expression)
  /\ \A i \in 1 .. Len(stack) :
       /\ ends[i - 1] < ends[i]
       /\ Postfix!Term[ends[i]] =
            {[from |-> ends[i - 1] + 1, value |-> v] : v \in Postfix!PopValue(stack[i])}
       /\ Postfix!IsIdentifier(stack[i]) =>
            ends[i] = ends[i - 1] + 1 /\ expression[ends[i]] = stack[i]

StackHasTheTerms ==
  Postfix!Running /\ Postfix!Assignments = {} =>
    \E ends \in [0 .. Len(stack) -> 0 .. Len(expression)] : StackTerms(ends)

Evaluator ==
  /\ EvaluatorValues \in Nat \ {0, 1} /\ MaxLength \in Nat
  /\ Variables \cap Constants = {}

LEMMA EvaluatorAssumed == Evaluator
BY DumpReadersAssumption DEF Evaluator, Postfix!EvaluatorAssumption

StackTokens == {t \in Postfix!Tokens : ~Postfix!IsOperator(t)} \cup {Postfix!Literal(v) : v \in Postfix!Value}

LEMMA Shapes ==
  /\ \A o : LET t == Postfix!Operator(o) IN
       /\ Postfix!IsOperator(t) /\ ~Postfix!IsLiteral(t) /\ ~Postfix!IsIdentifier(t)
       /\ t.operator = o
  /\ \A i : LET t == Postfix!Identifier(i) IN
       /\ ~Postfix!IsOperator(t) /\ ~Postfix!IsLiteral(t) /\ Postfix!IsIdentifier(t)
       /\ t.identifier = i
  /\ \A x : LET t == Postfix!Literal(x) IN
       /\ ~Postfix!IsOperator(t) /\ Postfix!IsLiteral(t) /\ ~Postfix!IsIdentifier(t)
       /\ t.literal = x
BY DEF Postfix!Operator, Postfix!Identifier, Postfix!Literal,
       Postfix!IsOperator, Postfix!IsLiteral, Postfix!IsIdentifier

LEMMA TokenShapes ==
  /\ \A t \in Postfix!Tokens :
       \/ \E o \in Postfix!Operators : t = Postfix!Operator(o)
       \/ \E i \in Variables \cup Constants : t = Postfix!Identifier(i)
       \/ \E x \in Int : t = Postfix!Literal(x)
  /\ \A t \in StackTokens :
       \/ \E i \in Variables \cup Constants : t = Postfix!Identifier(i)
       \/ \E x \in Int : t = Postfix!Literal(x)
<1>1. \A t \in Postfix!Tokens :
       \/ \E o \in Postfix!Operators : t = Postfix!Operator(o)
       \/ \E i \in Variables \cup Constants : t = Postfix!Identifier(i)
       \/ \E x \in Int : t = Postfix!Literal(x)
  BY DumpReadersAssumption DEF Postfix!Tokens, Postfix!Operands, Postfix!EvaluatorAssumption
<1>2. \A v \in Postfix!Value : v \in Int
  BY EvaluatorAssumed DEF Postfix!Value, Evaluator
<1> QED
  BY <1>1, <1>2, Shapes DEF StackTokens

LEMMA ModIsAValue ==
  ASSUME NEW a \in Int
  PROVE  a % EvaluatorValues \in Postfix!Value
<1>1. EvaluatorValues \in Nat /\ EvaluatorValues > 0
  BY EvaluatorAssumed DEF Evaluator
<1> QED
  BY <1>1 DEF Postfix!Value

LEMMA PoppedIsAValue ==
  ASSUME Postfix!TypeOK, NEW t \in StackTokens
  PROVE  Postfix!PopValue(t) \subseteq Postfix!Value
<1>1. CASE \E x \in Int : t = Postfix!Literal(x)
  BY <1>1, ModIsAValue, Shapes DEF Postfix!PopValue, Postfix!Wrap
<1>2. CASE \E i \in Variables \cup Constants : t = Postfix!Identifier(i)
  BY <1>2, Shapes DEF Postfix!PopValue, Postfix!TypeOK
<1> QED
  BY <1>1, <1>2, TokenShapes

LEMMA PushedIsPopped ==
  ASSUME NEW v \in Postfix!Value
  PROVE  /\ Postfix!PopValue(Postfix!Literal(v)) = {v}
         /\ Postfix!Literal(v) \in StackTokens
<1>1. v % EvaluatorValues = v
  BY EvaluatorAssumed DEF Postfix!Value, Evaluator
<1> QED
  BY <1>1, Shapes DEF Postfix!PopValue, Postfix!Wrap, StackTokens

LEMMA AppliedIsAValue ==
  ASSUME NEW o \in Postfix!BinaryOperations, NEW x \in Postfix!Value, NEW y \in Postfix!Value,
         ~(o \in {"/", "%"} /\ y = 0)
  PROVE  Postfix!Apply(o, x, y) \in Postfix!Value
<1>1. EvaluatorValues \in Nat /\ x \in Nat /\ y \in Nat /\ x < EvaluatorValues /\ y < EvaluatorValues
  BY EvaluatorAssumed DEF Evaluator, Postfix!Value
<1>2. CASE o = "+"
  <2>1. x + y \in Int
    BY <1>1
  <2> QED
    BY <1>2, <2>1, ModIsAValue DEF Postfix!Apply, Postfix!Wrap
<1>3. CASE o = "-"
  <2>1. x - y \in Int
    BY <1>1
  <2> QED
    BY <1>3, <2>1, ModIsAValue DEF Postfix!Apply, Postfix!Wrap
<1>4. CASE o = "*"
  <2>1. x * y \in Int
    BY <1>1
  <2> QED
    BY <1>4, <2>1, ModIsAValue DEF Postfix!Apply, Postfix!Wrap
<1>5. CASE o = "/"
  <2>1. y > 0
    BY <1>1, <1>5
  <2>2. x \div y \in Nat /\ x \div y <= x
    BY <1>1, <2>1
  <2>3. x \div y \in Postfix!Value
    BY <1>1, <2>2 DEF Postfix!Value
  <2> QED
    BY <1>5, <2>3 DEF Postfix!Apply
<1>6. CASE o = "%"
  <2>1. y > 0
    BY <1>1, <1>6
  <2>2. x % y \in 0 .. y - 1
    BY <1>1, <2>1
  <2>3. x % y \in Postfix!Value
    BY <1>1, <2>2 DEF Postfix!Value
  <2> QED
    BY <1>6, <2>3 DEF Postfix!Apply
<1>7. CASE o = "@"
  <2>1. y - 1 \in Int
    BY <1>1
  <2>2. Postfix!Wrap(y - 1) \in Postfix!Value
    BY <2>1, ModIsAValue DEF Postfix!Wrap
  <2>3. Postfix!Complement(Postfix!Wrap(y - 1)) \in Postfix!Value
    BY <1>1, <2>2 DEF Postfix!Value, Postfix!Complement
  <2> QED
    BY <1>1, <1>7, <2>3, AndIsAValue DEF Postfix!Apply
<1> QED
  BY <1>2, <1>3, <1>4, <1>5, <1>6, <1>7 DEF Postfix!BinaryOperations

PostfixTypes ==
  /\ Postfix!TypeOK
  /\ memory \in {<< >>, [a \in 0 .. EvaluatorValues - 2 |-> a + 1]}
  /\ doing = "idle" => stack = << >>

LEMMA TypesMean ==
  ASSUME Postfix!TypeOK
  PROVE  /\ stack \in Seq(StackTokens) /\ expression \in Seq(Postfix!Tokens)
         /\ Len(stack) \in Nat /\ Len(expression) \in Nat
         /\ \A i \in 1 .. Len(stack) : stack[i] \in StackTokens
         /\ \A i \in 1 .. Len(expression) : expression[i] \in Postfix!Tokens
BY DEF Postfix!TypeOK, StackTokens

LEMMA MemoryIsOfValues ==
  ASSUME memory \in {<< >>, [a \in 0 .. EvaluatorValues - 2 |-> a + 1]}
  PROVE  \A a \in DOMAIN memory : memory[a] \in Postfix!Value
<1>1. CASE memory = << >>
  BY <1>1
<1>2. CASE memory = [a \in 0 .. EvaluatorValues - 2 |-> a + 1]
  BY <1>2, EvaluatorAssumed DEF Evaluator, Postfix!Value
<1> QED
  BY <1>1, <1>2

\* What a token leaves that pushes a value.
LEMMA PushTypes ==
  ASSUME Postfix!TypeOK, NEW j \in 0 .. Len(stack), NEW v \in Postfix!Value,
         Postfix!Push(SubSeq(stack, 1, j), v)
  PROVE  /\ stack' \in Seq(StackTokens)
         /\ UNCHANGED <<dictionary, assigned, doing, answer>>
<1>1. SubSeq(stack, 1, j) \in Seq(StackTokens)
  BY TypesMean
<1>2. Postfix!Literal(v) \in StackTokens
  BY PushedIsPopped
<1> QED
  BY <1>1, <1>2 DEF Postfix!Push

LEMMA FailTypes ==
  ASSUME Postfix!Fail
  PROVE  /\ doing' = "idle" /\ stack' = << >> /\ answer' = [by |-> doing, ok |-> FALSE, value |-> 0]
         /\ UNCHANGED <<dictionary, assigned>>
BY DEF Postfix!Fail, Postfix!Return

\* Each operator fails, is undefined, or takes its operands from the stack.
LEMMA BinaryDoes ==
  ASSUME Postfix!TypeOK, NEW o \in Postfix!BinaryOperations, Postfix!Binary(o)
  PROVE  \/ /\ Postfix!Fail
            /\ Len(stack) < 2 \/ Postfix!PopValue(Postfix!Top(1)) = {} \/ Postfix!PopValue(Postfix!Top(2)) = {}
         \/ Postfix!Undefined
         \/ /\ Len(stack) >= 2
            /\ \E x \in Postfix!PopValue(Postfix!Top(2)), y \in Postfix!PopValue(Postfix!Top(1)) :
                 /\ Postfix!Apply(o, x, y) \in Postfix!Value
                 /\ Postfix!Push(SubSeq(stack, 1, Len(stack) - 2), Postfix!Apply(o, x, y))
<1>1. CASE Len(stack) < 2 \/ Postfix!PopValue(Postfix!Top(1)) = {} \/ Postfix!PopValue(Postfix!Top(2)) = {}
  BY <1>1 DEF Postfix!Binary
<1>2. CASE ~(Len(stack) < 2 \/ Postfix!PopValue(Postfix!Top(1)) = {} \/ Postfix!PopValue(Postfix!Top(2)) = {})
  <2>1. PICK x \in Postfix!PopValue(Postfix!Top(2)), y \in Postfix!PopValue(Postfix!Top(1)) :
          IF o \in {"/", "%"} /\ y = 0 THEN Postfix!Undefined
          ELSE Postfix!Push(Postfix!Below(2), Postfix!Apply(o, x, y))
    BY <1>2 DEF Postfix!Binary
  <2>2. Len(stack) >= 2 /\ Postfix!Top(1) \in StackTokens /\ Postfix!Top(2) \in StackTokens
    BY <1>2, TypesMean DEF Postfix!Top
  <2>3. x \in Postfix!Value /\ y \in Postfix!Value
    BY <2>2, PoppedIsAValue
  <2>4. CASE o \in {"/", "%"} /\ y = 0
    BY <2>1, <2>4
  <2>5. CASE ~(o \in {"/", "%"} /\ y = 0)
    <3>1. Postfix!Apply(o, x, y) \in Postfix!Value
      BY <2>3, <2>5, AppliedIsAValue
    <3> QED
      BY <2>1, <2>2, <2>5, <3>1 DEF Postfix!Below
  <2> QED
    BY <2>4, <2>5
<1> QED
  BY <1>1, <1>2

LEMMA DereferenceDoes ==
  ASSUME PostfixTypes, Postfix!Dereference
  PROVE  \/ /\ Postfix!Fail
            /\ Len(stack) < 1 \/ Postfix!PopValue(Postfix!Top(1)) \cap DOMAIN memory = {}
         \/ /\ Len(stack) >= 1
            /\ \E a \in Postfix!PopValue(Postfix!Top(1)) :
                 /\ Postfix!PopValue(Postfix!Top(1)) = {a} /\ a \in DOMAIN memory
                 /\ memory[a] \in Postfix!Value
                 /\ Postfix!Push(SubSeq(stack, 1, Len(stack) - 1), memory[a])
<1> DEFINE Nothing == Len(stack) < 1 \/ Postfix!PopValue(Postfix!Top(1)) \cap DOMAIN memory = {}
<1>1. memory = << >> => DOMAIN memory = {}
  OBVIOUS
<1>2. CASE Nothing
  BY <1>2 DEF Postfix!Dereference
<1>3. CASE ~Nothing
  <2>1. Len(stack) >= 1 /\ Postfix!Top(1) \in StackTokens
    BY <1>3, TypesMean DEF Postfix!Top, PostfixTypes
  <2>2. PICK a \in Postfix!PopValue(Postfix!Top(1)) : Postfix!Push(Postfix!Below(1), memory[a])
    BY <1>1, <1>3 DEF Postfix!Dereference
  <2>3. Postfix!PopValue(Postfix!Top(1)) = {a}
    BY <2>1, TokenShapes, Shapes DEF Postfix!PopValue
  <2>4. a \in DOMAIN memory
    BY <1>3, <2>3
  <2>5. memory[a] \in Postfix!Value
    BY <2>4, MemoryIsOfValues DEF PostfixTypes
  <2> QED
    BY <2>1, <2>2, <2>3, <2>4, <2>5 DEF Postfix!Below
<1> QED
  BY <1>2, <1>3

\* An assignment fails, is undefined, or stores a value in a variable.
LEMMA AssignDoes ==
  ASSUME Postfix!TypeOK, Postfix!Assign
  PROVE  \/ Postfix!Fail
         \/ Postfix!Undefined
         \/ /\ Len(stack) >= 2
            /\ Postfix!IsIdentifier(Postfix!Top(2)) /\ Postfix!Top(2).identifier \in Variables
            /\ \E v \in Postfix!PopValue(Postfix!Top(1)) :
                 /\ v \in Postfix!Value
                 /\ dictionary' = Postfix!Storing(Postfix!Top(2).identifier, v)
                 /\ assigned' = IF doing = "Evaluate" THEN assigned \cup {Postfix!Top(2).identifier}
                                                      ELSE assigned
                 /\ stack' = SubSeq(stack, 1, Len(stack) - 2)
                 /\ UNCHANGED <<doing, answer>>
<1>1. CASE Len(stack) < 2 \/ Postfix!PopValue(Postfix!Top(1)) = {}
  BY <1>1 DEF Postfix!Assign
<1>2. CASE /\ ~(Len(stack) < 2 \/ Postfix!PopValue(Postfix!Top(1)) = {})
           /\ Postfix!IsLiteral(Postfix!Top(2))
  BY <1>2 DEF Postfix!Assign
<1>3. CASE /\ ~(Len(stack) < 2 \/ Postfix!PopValue(Postfix!Top(1)) = {})
           /\ ~Postfix!IsLiteral(Postfix!Top(2))
  <2>1. Len(stack) >= 2 /\ Postfix!Top(1) \in StackTokens /\ Postfix!Top(2) \in StackTokens
    BY <1>3, TypesMean DEF Postfix!Top
  <2>2. Postfix!IsIdentifier(Postfix!Top(2))
    BY <1>3, <2>1, TokenShapes, Shapes
  <2>3. CASE Postfix!Top(2).identifier \notin Variables
    BY <1>3, <2>3 DEF Postfix!Assign
  <2>4. CASE Postfix!Top(2).identifier \in Variables
    <3>1. PICK v \in Postfix!PopValue(Postfix!Top(1)) :
            /\ dictionary' = Postfix!Storing(Postfix!Top(2).identifier, v)
            /\ assigned' = IF doing = "Evaluate" THEN assigned \cup {Postfix!Top(2).identifier}
                                                 ELSE assigned
            /\ stack' = Postfix!Below(2)
            /\ UNCHANGED <<doing, answer>>
      BY <1>3, <2>4 DEF Postfix!Assign
    <3>2. v \in Postfix!Value
      BY <2>1, PoppedIsAValue
    <3> QED
      BY <2>1, <2>2, <2>4, <3>1, <3>2 DEF Postfix!Below
  <2> QED
    BY <2>3, <2>4
<1> QED
  BY <1>1, <1>2, <1>3

\* What one token may do to the stack and the dictionary.
LEMMA TokenKeepsTypes ==
  ASSUME PostfixTypes, NEW t \in Postfix!Tokens, Postfix!EvaluateToken(t)
  PROVE  PostfixTypes'
<1>1. /\ expression' = Append(expression, t) /\ expression' \in Seq(Postfix!Tokens)
      /\ UNCHANGED <<memory, given>>
      /\ doing \in {"Evaluate", "EvaluateForValue"}
  BY DEF Postfix!EvaluateToken, Postfix!Running, PostfixTypes, Postfix!TypeOK
<1>2. Postfix!TypeOK /\ Len(stack) \in Nat
  BY TypesMean DEF PostfixTypes
<1> DEFINE Typed ==
      /\ DOMAIN dictionary' \subseteq Variables \cup Constants
      /\ \A i \in DOMAIN dictionary' : dictionary'[i] \in Postfix!Value
      /\ stack' \in Seq(StackTokens)
      /\ assigned' \subseteq Variables
      /\ doing' \in {"Evaluate", "EvaluateForValue", "undefined"} \/ (doing' = "idle" /\ stack' = << >>)
      /\ answer'.ok \in BOOLEAN /\ answer'.value \in Postfix!Value
<1>3. SUFFICES Typed
  BY <1>1 DEF PostfixTypes, Postfix!TypeOK, StackTokens, Postfix!Value
<1>4. /\ DOMAIN dictionary \subseteq Variables \cup Constants
      /\ \A i \in DOMAIN dictionary : dictionary[i] \in Postfix!Value
      /\ stack \in Seq(StackTokens)
      /\ assigned \subseteq Variables
      /\ answer.ok \in BOOLEAN /\ answer.value \in Postfix!Value
  BY <1>2, TypesMean DEF Postfix!TypeOK
<1>5. CASE Postfix!Fail
  <2>1. 0 \in Postfix!Value
    BY EvaluatorAssumed DEF Evaluator, Postfix!Value
  <2>2. doing' = "idle" /\ stack' = << >> /\ UNCHANGED <<dictionary, assigned>>
    BY <1>5, FailTypes
  <2>3. answer'.ok \in BOOLEAN /\ answer'.value \in Postfix!Value
    <3>1. answer' = [by |-> doing, ok |-> FALSE, value |-> 0]
      BY <1>5, FailTypes
    <3> QED
      BY <2>1, <3>1
  <2> QED
    BY <1>4, <2>2, <2>3
<1>6. CASE Postfix!Undefined
  BY <1>4, <1>6 DEF Postfix!Undefined
<1>7. ASSUME NEW j \in 0 .. Len(stack), NEW v \in Postfix!Value, Postfix!Push(SubSeq(stack, 1, j), v)
      PROVE  Typed
  BY <1>1, <1>2, <1>4, <1>7, PushTypes
<1>8. CASE \E o \in Postfix!BinaryOperations : t = Postfix!Operator(o) /\ Postfix!Binary(o)
  <2>1. PICK o \in Postfix!BinaryOperations : Postfix!Binary(o)
    BY <1>8
  <2>2. Len(stack) >= 2 => Len(stack) - 2 \in 0 .. Len(stack)
    BY <1>2
  <2> HIDE DEF Typed
  <2> QED
    BY <1>2, <1>5, <1>6, <1>7, <2>1, <2>2, BinaryDoes
<1>9. CASE Postfix!Dereference
  <2>1. Len(stack) >= 1 => Len(stack) - 1 \in 0 .. Len(stack)
    BY <1>2
  <2> HIDE DEF Typed
  <2> QED
    BY <1>5, <1>7, <1>9, <2>1, DereferenceDoes
<1>10. CASE Postfix!Assign
  <2>1. SUFFICES ASSUME ~Postfix!Fail, ~Postfix!Undefined PROVE Typed
    BY <1>5, <1>6
  <2> DEFINE i == Postfix!Top(2).identifier
  <2>2. PICK v \in Postfix!PopValue(Postfix!Top(1)) :
          /\ Len(stack) >= 2 /\ i \in Variables /\ v \in Postfix!Value
          /\ dictionary' = Postfix!Storing(i, v)
          /\ assigned' = IF doing = "Evaluate" THEN assigned \cup {i} ELSE assigned
          /\ stack' = SubSeq(stack, 1, Len(stack) - 2)
          /\ UNCHANGED <<doing, answer>>
    BY <1>2, <1>10, <2>1, AssignDoes
  <2> HIDE DEF i
  <2>3. stack' \in Seq(StackTokens)
    BY <1>2, <1>4, <2>2
  <2>4. /\ DOMAIN dictionary' \subseteq Variables \cup Constants
        /\ \A n \in DOMAIN dictionary' : dictionary'[n] \in Postfix!Value
    BY <1>4, <2>2 DEF Postfix!Storing
  <2> QED
    BY <1>1, <1>4, <2>2, <2>3, <2>4
<1>11. CASE /\ ~Postfix!IsOperator(t) /\ stack' = Append(stack, t)
            /\ UNCHANGED <<dictionary, assigned, doing, answer>>
  <2>1. t \in StackTokens
    BY <1>11 DEF StackTokens
  <2> QED
    BY <1>1, <1>4, <1>11, <2>1
<1> QED
  BY <1>8, <1>9, <1>10, <1>11 DEF Postfix!EvaluateToken

\* A token leaves the terms before it, and may end one more.
LEMMA TokenTerms ==
  ASSUME PostfixTypes, NEW t \in Postfix!Tokens, Postfix!EvaluateToken(t)
  PROVE  LET n == Len(expression) + 1 IN
         /\ Len(expression') = n /\ expression'[n] = t
         /\ \A m \in 1 .. Len(expression) : expression'[m] = expression[m]
         /\ \A m \in 0 .. Len(expression) : Postfix!Term'[m] = Postfix!Term[m]
         /\ Postfix!Term'[n] = TermBody(Postfix!Term, expression', given, memory, n)
         /\ Postfix!Assignments' = Postfix!Assignments \cup {m \in {n} : t = Postfix!Operator("=")}
         /\ Postfix!Assignments \subseteq 1 .. Len(expression)
<1> DEFINE n == Len(expression) + 1
<1>1. /\ expression' = Append(expression, t) /\ given' = given /\ memory' = memory
      /\ expression \in Seq(Postfix!Tokens) /\ Len(expression) \in Nat
  BY TypesMean DEF Postfix!EvaluateToken, PostfixTypes
<1>2. Len(expression') = n /\ expression'[n] = t
  BY <1>1
<1>3. \A m \in 1 .. Len(expression) : expression'[m] = expression[m]
  BY <1>1
<1>4. Postfix!Term = TermsOf(expression, given, memory) /\ Postfix!Term' = TermsOf(expression', given, memory)
  BY <1>1, TermIsTermsOf
<1>5. \A m \in 0 .. Len(expression) : Postfix!Term'[m] = Postfix!Term[m]
  <2>1. IsBeginning(expression, expression')
    BY <1>1, <1>2, <1>3 DEF IsBeginning
  <2> QED
    BY <1>4, <2>1, TermsStay
<1>6. Postfix!Term'[n] = TermBody(Postfix!Term, expression', given, memory, n)
  <2> DEFINE T == TermsOf(expression, given, memory)
             U == TermsOf(expression', given, memory)
  <2>1. U[n] = TermBody(U, expression', given, memory, n)
    <3>1. n \in 0 .. Len(expression') /\ Len(expression') \in Nat
      BY <1>1, <1>2
    <3> HIDE DEF n
    <3> QED
      BY <3>1, TermsAreDefined
  <2>2. \A m \in 0 .. n - 1 : U[m] = T[m] /\ Begins(U, m)
    <3>1. \A m \in 0 .. n - 1 : m \in 0 .. Len(expression') /\ m \in 0 .. Len(expression)
      BY <1>1, <1>2
    <3>2. Len(expression') \in Nat
      BY <1>1, <1>2
    <3>3. \A m \in 0 .. Len(expression') : Begins(U, m)
      BY <3>2, TermsBegin
    <3> QED
      BY <1>4, <1>5, <3>1, <3>3
  <2>3. n \in Nat
    BY <1>1
  <2> HIDE DEF n, T, U
  <2>4. TermBody(U, expression', given, memory, n) = TermBody(T, expression', given, memory, n)
    BY <2>2, <2>3, TermIsOfTermsBefore
  <2> QED
    BY <1>4, <2>1, <2>4 DEF T, U
<1>7. Postfix!Assignments' = Postfix!Assignments \cup {m \in {n} : t = Postfix!Operator("=")}
  <2>1. DOMAIN expression' = DOMAIN expression \cup {n} /\ DOMAIN expression = 1 .. Len(expression)
    BY <1>1, <1>2
  <2> QED
    BY <1>1, <1>2, <1>3, <2>1 DEF Postfix!Assignments
<1>8. Postfix!Assignments \subseteq 1 .. Len(expression)
  BY <1>1 DEF Postfix!Assignments
<1> QED
  BY <1>2, <1>3, <1>5, <1>6, <1>7, <1>8

\* The terms the stack has at its top.
LEMMA TopTerms ==
  ASSUME PostfixTypes, NEW ends \in [0 .. Len(stack) -> 0 .. Len(expression)], StackTerms(ends)
  PROVE  /\ Postfix!Term[0] = {}
         /\ Len(stack) = 0 => Postfix!Term[Len(expression)] = {}
         /\ Len(stack) >= 1 =>
              Postfix!Term[Len(expression)] =
                {[from |-> ends[Len(stack) - 1] + 1, value |-> v] : v \in Postfix!PopValue(Postfix!Top(1))}
         /\ Len(stack) = 1 => ends[Len(stack) - 1] = 0
         /\ Len(stack) >= 2 =>
              Postfix!Term[ends[Len(stack) - 1]] =
                {[from |-> ends[Len(stack) - 2] + 1, value |-> v] : v \in Postfix!PopValue(Postfix!Top(2))}
<1>1. Len(stack) \in Nat /\ Len(expression) \in Nat
  BY TypesMean DEF PostfixTypes
<1>2. Postfix!Term[0] = {}
  <2>1. TermsOf(expression, given, memory)[0]
          = TermBody(TermsOf(expression, given, memory), expression, given, memory, 0)
    BY <1>1, TermsAreDefined
  <2> QED
    BY <2>1, TermIsTermsOf DEF TermBody
<1>3. Len(stack) >= 1 =>
        /\ Len(stack) \in 1 .. Len(stack)
        /\ Postfix!Top(1) = stack[Len(stack)]
  BY <1>1 DEF Postfix!Top
<1>4. Len(stack) >= 2 =>
        /\ Len(stack) - 1 \in 1 .. Len(stack) /\ (Len(stack) - 1) - 1 = Len(stack) - 2
        /\ Postfix!Top(2) = stack[Len(stack) - 1]
  BY <1>1 DEF Postfix!Top
<1>5. Len(stack) = 0 => Postfix!Term[Len(expression)] = {}
  BY <1>2 DEF StackTerms
<1>6. Len(stack) >= 1 =>
        Postfix!Term[Len(expression)] =
          {[from |-> ends[Len(stack) - 1] + 1, value |-> v] : v \in Postfix!PopValue(Postfix!Top(1))}
  BY <1>3 DEF StackTerms
<1>7. Len(stack) >= 2 =>
        Postfix!Term[ends[Len(stack) - 1]] =
          {[from |-> ends[Len(stack) - 2] + 1, value |-> v] : v \in Postfix!PopValue(Postfix!Top(2))}
  BY <1>4 DEF StackTerms
<1>8. Len(stack) = 1 => ends[Len(stack) - 1] = 0
  BY DEF StackTerms
<1> QED
  BY <1>2, <1>5, <1>6, <1>7, <1>8

\* The stack has the terms again when what is left of it has, and the value
\* pushed is that of the term that ends with the token.
LEMMA PushKeepsTerms ==
  ASSUME PostfixTypes, NEW t \in Postfix!Tokens, Postfix!EvaluateToken(t),
         NEW ends \in [0 .. Len(stack) -> 0 .. Len(expression)], StackTerms(ends),
         NEW j \in 0 .. Len(stack), NEW x,
         stack' = Append(SubSeq(stack, 1, j), x), dictionary' = dictionary,
         Postfix!Term'[Len(expression) + 1] =
           {[from |-> ends[j] + 1, value |-> v] : v \in Postfix!PopValue(x)},
         Postfix!IsIdentifier(x) => Len(expression) + 1 = ends[j] + 1 /\ x = t
  PROVE  StackHasTheTerms'
<1>1. /\ Len(stack) \in Nat /\ Len(expression) \in Nat /\ stack \in Seq(StackTokens)
      /\ Len(expression') = Len(expression) + 1
      /\ expression'[Len(expression) + 1] = t
      /\ \A m \in 1 .. Len(expression) : expression'[m] = expression[m]
      /\ \A m \in 0 .. Len(expression) : Postfix!Term'[m] = Postfix!Term[m]
  BY TokenTerms, TypesMean DEF PostfixTypes
<1>2. /\ Len(stack') = j + 1 /\ stack'[j + 1] = x
      /\ \A i \in 1 .. j : stack'[i] = stack[i]
  BY <1>1
<1>3. PICK k : k = Len(expression) + 1
  OBVIOUS
<1>4. PICK f : f = [i \in 0 .. j + 1 |-> IF i = j + 1 THEN k ELSE ends[i]]
  OBVIOUS
<1>5. /\ f \in [0 .. j + 1 -> 0 .. k] /\ f[j + 1] = k
      /\ \A i \in 0 .. j : f[i] = ends[i] /\ ends[i] \in 0 .. Len(expression)
  <2>1. \A i \in 0 .. j : i \in 0 .. Len(stack) /\ i \in 0 .. j + 1 /\ i # j + 1
    BY <1>1
  <2>2. \A i \in 0 .. j : ends[i] \in 0 .. Len(expression) /\ ends[i] \in 0 .. k
    <3>1. \A i \in 0 .. j : ends[i] \in 0 .. Len(expression)
      BY <2>1
    <3>2. \A m \in 0 .. Len(expression) : m \in 0 .. k
      BY <1>1, <1>3
    <3> QED
      BY <3>1, <3>2
  <2>3. \A i \in 0 .. j : f[i] = ends[i]
    BY <1>4, <2>1
  <2>4. j + 1 \in 0 .. j + 1 /\ k \in 0 .. k
    BY <1>1, <1>3
  <2>5. \A i \in 0 .. j + 1 : i # j + 1 => i \in 0 .. j
    BY <1>1
  <2> QED
    BY <1>4, <2>2, <2>3, <2>4, <2>5
<1>6. f[0] = 0 /\ f[Len(stack')] = Len(expression')
  BY <1>1, <1>2, <1>3, <1>5 DEF StackTerms
<1>7. ASSUME NEW i \in 1 .. Len(stack')
      PROVE  /\ f[i - 1] < f[i]
             /\ Postfix!Term'[f[i]] = {[from |-> f[i - 1] + 1, value |-> v] : v \in Postfix!PopValue(stack'[i])}
             /\ Postfix!IsIdentifier(stack'[i]) =>
                  f[i] = f[i - 1] + 1 /\ expression'[f[i]] = stack'[i]
  <2>1. CASE i = j + 1
    <3>1. f[i - 1] = ends[j] /\ f[i] = Len(expression) + 1 /\ stack'[i] = x
      BY <1>2, <1>3, <1>5, <2>1
    <3>2. Len(expression) \in Nat /\ ends[j] \in 0 .. Len(expression)
      BY <1>1
    <3>3. PICK bottom, length \in Int : bottom = ends[j] /\ length = Len(expression)
      BY <3>2
    <3>4. ends[j] < Len(expression) + 1
      <4>1. bottom <= length
        BY <3>2, <3>3
      <4> QED
        BY <3>3, <4>1
    <3> QED
      BY <1>1, <3>1, <3>4
  <2>2. CASE i # j + 1
    <3>1. i \in 1 .. j /\ i \in 1 .. Len(stack) /\ i - 1 \in 0 .. j /\ i \in 0 .. j
      <4>1. j \in Int /\ i \in 1 .. j + 1
        BY <1>1, <1>2
      <4>2. i \in 1 .. j
        BY <2>2, <4>1
      <4>3. i - 1 \in 0 .. j /\ i \in 0 .. j
        BY <4>1, <4>2
      <4>4. \A m \in 1 .. j : m \in 1 .. Len(stack)
        BY <1>1
      <4> QED
        BY <4>2, <4>3, <4>4
    <3>2. f[i - 1] = ends[i - 1] /\ f[i] = ends[i] /\ stack'[i] = stack[i] /\ ends[i] \in 0 .. Len(expression)
          /\ ends[i - 1] \in 0 .. Len(expression)
      BY <1>2, <1>5, <3>1
    <3>3. /\ ends[i - 1] < ends[i]
          /\ Postfix!Term[ends[i]]
               = {[from |-> ends[i - 1] + 1, value |-> v] : v \in Postfix!PopValue(stack[i])}
          /\ Postfix!IsIdentifier(stack[i]) => ends[i] = ends[i - 1] + 1 /\ expression[ends[i]] = stack[i]
      BY <3>1 DEF StackTerms
    <3>4. ends[i] \in 1 .. Len(expression)
      BY <3>2, <3>3
    <3>5. Postfix!Term'[f[i]] = Postfix!Term[ends[i]] /\ expression'[f[i]] = expression[ends[i]]
      BY <1>1, <3>2, <3>4
    <3> QED
      BY <3>2, <3>3, <3>5
  <2> QED
    BY <2>1, <2>2
<1>8. StackTerms(f)'
  <2>1. \A i \in 1 .. Len(stack') : Postfix!PopValue(stack[i])' = Postfix!PopValue(stack'[i])
    BY DEF Postfix!PopValue
  <2> QED
    BY <1>6, <1>7, <2>1 DEF StackTerms
<1>9. f \in [0 .. Len(stack') -> 0 .. Len(expression')]
  BY <1>1, <1>2, <1>3, <1>5
<1> QED
  BY <1>8, <1>9 DEF StackHasTheTerms

\* A call that has failed leaves no term that ends with its last token.
FailsWithoutTerm ==
  /\ doing' = "idle" /\ answer'.ok = FALSE
  /\ Postfix!Term'[Len(expression) + 1] = {}

LEMMA OperandKeepsTerms ==
  ASSUME PostfixTypes, NEW t \in Postfix!Tokens, Postfix!EvaluateToken(t), dictionary = given,
         NEW ends \in [0 .. Len(stack) -> 0 .. Len(expression)], StackTerms(ends),
         ~Postfix!IsOperator(t), stack' = Append(stack, t), dictionary' = dictionary
  PROVE  StackHasTheTerms'
<1> DEFINE n == Len(expression) + 1
<1>1. /\ Len(stack) \in Nat /\ Len(expression) \in Nat /\ stack \in Seq(StackTokens)
      /\ expression'[n] = t
      /\ Postfix!Term'[n] = TermBody(Postfix!Term, expression', given, memory, n)
  BY TokenTerms, TypesMean DEF PostfixTypes
<1>2. SubSeq(stack, 1, Len(stack)) = stack
  BY <1>1
<1>3. n # 0 /\ ends[Len(stack)] + 1 = n
  BY <1>1 DEF StackTerms
<1>4. Postfix!Term'[n] = {[from |-> n, value |-> v] : v \in Postfix!PopValue(t)}
  <2>1. CASE Postfix!IsLiteral(t)
    BY <1>1, <1>3, <2>1 DEF TermBody, Postfix!PopValue, Postfix!Wrap
  <2>2. CASE ~Postfix!IsLiteral(t)
    <3>1. Postfix!IsIdentifier(t)
      BY <2>2, TokenShapes, Shapes
    <3> QED
      BY <1>1, <1>3, <2>2, <3>1 DEF TermBody, Postfix!PopValue
  <2> QED
    BY <2>1, <2>2
<1>5. Len(stack) \in 0 .. Len(stack)
  BY <1>1
<1> HIDE DEF n
<1> QED
  BY <1>2, <1>3, <1>4, <1>5, PushKeepsTerms DEF n

LEMMA DereferenceKeepsTerms ==
  ASSUME PostfixTypes, NEW t \in Postfix!Tokens, Postfix!EvaluateToken(t),
         NEW ends \in [0 .. Len(stack) -> 0 .. Len(expression)], StackTerms(ends),
         t = Postfix!Operator("^"), Postfix!Dereference
  PROVE  (StackHasTheTerms' /\ doing' = doing) \/ FailsWithoutTerm
<1> DEFINE n == Len(expression) + 1
           T == Postfix!Term[Len(expression)]
           k == Len(stack)
<1>1. /\ k \in Nat /\ Len(expression) \in Nat /\ stack \in Seq(StackTokens)
      /\ Postfix!Term'[n] = TermBody(Postfix!Term, expression', given, memory, n)
      /\ expression'[n] = t
  BY TokenTerms, TypesMean DEF PostfixTypes
<1>2. Postfix!Term'[n] =
        {[from |-> u.from, value |-> memory[u.value]] : u \in {v \in T : v.value \in DOMAIN memory}}
  <2>1. n # 0 /\ n - 1 = Len(expression)
    BY <1>1
  <2> QED
    BY <1>1, <2>1, Shapes DEF TermBody
<1>3. /\ k = 0 => T = {}
      /\ k >= 1 => T = {[from |-> ends[k - 1] + 1, value |-> v] : v \in Postfix!PopValue(Postfix!Top(1))}
  BY TopTerms
<1>4. CASE /\ Postfix!Fail
           /\ k < 1 \/ Postfix!PopValue(Postfix!Top(1)) \cap DOMAIN memory = {}
  <2>1. \A v \in T : v.value \notin DOMAIN memory
    BY <1>1, <1>3, <1>4
  <2>2. Postfix!Term'[n] = {}
    BY <1>2, <2>1
  <2> QED
    BY <1>4, <2>2, FailTypes DEF FailsWithoutTerm
<1>5. CASE /\ k >= 1
           /\ \E a \in Postfix!PopValue(Postfix!Top(1)) :
                 /\ Postfix!PopValue(Postfix!Top(1)) = {a} /\ a \in DOMAIN memory
                 /\ memory[a] \in Postfix!Value
                 /\ Postfix!Push(SubSeq(stack, 1, k - 1), memory[a])
  <2>1. PICK a : /\ Postfix!PopValue(Postfix!Top(1)) = {a} /\ a \in DOMAIN memory
                 /\ memory[a] \in Postfix!Value
                 /\ Postfix!Push(SubSeq(stack, 1, k - 1), memory[a])
    BY <1>5
  <2>2. PICK x : x = Postfix!Literal(memory[a])
    OBVIOUS
  <2>3. stack' = Append(SubSeq(stack, 1, k - 1), x) /\ dictionary' = dictionary /\ doing' = doing
    BY <2>1, <2>2 DEF Postfix!Push
  <2>4. Postfix!PopValue(x) = {memory[a]} /\ ~Postfix!IsIdentifier(x)
    BY <2>1, <2>2, PushedIsPopped, Shapes
  <2>5. T = {[from |-> ends[k - 1] + 1, value |-> a]}
    BY <1>3, <1>5, <2>1
  <2>6. Postfix!Term'[n] = {[from |-> ends[k - 1] + 1, value |-> memory[a]]}
    <3>1. PICK u : u = [from |-> ends[k - 1] + 1, value |-> a]
      OBVIOUS
    <3>2. T = {u} /\ u.value = a /\ u.from = ends[k - 1] + 1
      BY <2>5, <3>1
    <3>3. {v \in T : v.value \in DOMAIN memory} = {u}
      BY <2>1, <3>2
    <3> QED
      BY <1>2, <3>2, <3>3
  <2>7. Postfix!Term'[n] = {[from |-> ends[k - 1] + 1, value |-> v] : v \in Postfix!PopValue(x)}
    BY <2>4, <2>6
  <2>8. k - 1 \in 0 .. k
    BY <1>1, <1>5
  <2> QED
    BY <2>3, <2>4, <2>7, <2>8, PushKeepsTerms
<1> QED
  BY <1>4, <1>5, DereferenceDoes

LEMMA BinaryKeepsTerms ==
  ASSUME PostfixTypes, NEW t \in Postfix!Tokens, Postfix!EvaluateToken(t),
         NEW ends \in [0 .. Len(stack) -> 0 .. Len(expression)], StackTerms(ends),
         NEW o \in Postfix!BinaryOperations, t = Postfix!Operator(o), Postfix!Binary(o)
  PROVE  (StackHasTheTerms' /\ doing' = doing) \/ FailsWithoutTerm \/ doing' = "undefined"
<1> DEFINE n == Len(expression) + 1
           T == Postfix!Term
           k == Len(stack)
<1>1. /\ k \in Nat /\ Len(expression) \in Nat /\ stack \in Seq(StackTokens)
      /\ Postfix!Term'[n] = TermBody(T, expression', given, memory, n)
      /\ expression'[n] = t
  BY TokenTerms, TypesMean DEF PostfixTypes
<1>2. Postfix!Term'[n] =
        UNION {{[from |-> l.from, value |-> Postfix!Apply(o, l.value, r.value)] :
                         l \in T[r.from - 1]} : r \in T[Len(expression)]}
  <2>1. n # 0 /\ n - 1 = Len(expression)
    BY <1>1
  <2>2. t # Postfix!Operator("^") /\ t.operator = o
    BY Shapes DEF Postfix!BinaryOperations
  <2>3. ~Postfix!IsLiteral(t) /\ ~Postfix!IsIdentifier(t)
    BY Shapes
  <2> HIDE DEF n, T
  <2> QED
    BY <1>1, <2>1, <2>2, <2>3 DEF TermBody
<1>3. /\ T[0] = {}
      /\ k = 0 => T[Len(expression)] = {}
      /\ k >= 1 =>
           T[Len(expression)]
             = {[from |-> ends[k - 1] + 1, value |-> v] : v \in Postfix!PopValue(Postfix!Top(1))}
      /\ k = 1 => ends[k - 1] = 0
      /\ k >= 2 =>
           T[ends[k - 1]] = {[from |-> ends[k - 2] + 1, value |-> v] : v \in Postfix!PopValue(Postfix!Top(2))}
  BY TopTerms
<1>4. k >= 1 => ends[k - 1] \in Nat
  BY <1>1
<1>5. CASE /\ Postfix!Fail
           /\ k < 2 \/ Postfix!PopValue(Postfix!Top(1)) = {} \/ Postfix!PopValue(Postfix!Top(2)) = {}
  <2>1. \A r \in T[Len(expression)] : T[r.from - 1] = {}
    <3>1. CASE k = 0
      BY <1>3, <3>1
    <3>2. CASE k >= 1
      <4>1. \A r \in T[Len(expression)] : r.from - 1 = ends[k - 1]
        BY <1>3, <1>4, <3>2
      <4>2. k = 1 => T[ends[k - 1]] = {}
        BY <1>3
      <4>3. T[Len(expression)] = {} \/ T[ends[k - 1]] = {}
        BY <1>1, <1>3, <1>5, <3>2, <4>2
      <4> HIDE DEF T
      <4> QED
        BY <4>1, <4>3
    <3> QED
      BY <1>1, <3>1, <3>2
  <2>2. Postfix!Term'[n] = {}
    BY <1>2, <2>1
  <2> QED
    BY <1>5, <2>2, FailTypes DEF FailsWithoutTerm
<1>6. CASE Postfix!Undefined
  BY <1>6 DEF Postfix!Undefined
<1>7. CASE /\ k >= 2
           /\ \E x \in Postfix!PopValue(Postfix!Top(2)), y \in Postfix!PopValue(Postfix!Top(1)) :
                 /\ Postfix!Apply(o, x, y) \in Postfix!Value
                 /\ Postfix!Push(SubSeq(stack, 1, k - 2), Postfix!Apply(o, x, y))
  <2>1. PICK x \in Postfix!PopValue(Postfix!Top(2)), y \in Postfix!PopValue(Postfix!Top(1)) :
                 /\ Postfix!Apply(o, x, y) \in Postfix!Value
                 /\ Postfix!Push(SubSeq(stack, 1, k - 2), Postfix!Apply(o, x, y))
    BY <1>7
  <2>2. Postfix!PopValue(Postfix!Top(2)) = {x} /\ Postfix!PopValue(Postfix!Top(1)) = {y}
    <3>1. Postfix!Top(1) \in StackTokens /\ Postfix!Top(2) \in StackTokens
      BY <1>1, <1>7, TypesMean DEF Postfix!Top, PostfixTypes
    <3> QED
      BY <3>1, TokenShapes, Shapes DEF Postfix!PopValue
  <2>3. PICK a : a = Postfix!Apply(o, x, y)
    OBVIOUS
  <2>4. PICK z : z = Postfix!Literal(a)
    OBVIOUS
  <2>5. stack' = Append(SubSeq(stack, 1, k - 2), z) /\ dictionary' = dictionary /\ doing' = doing
    BY <2>1, <2>3, <2>4 DEF Postfix!Push
  <2>6. Postfix!PopValue(z) = {a} /\ ~Postfix!IsIdentifier(z)
    BY <2>1, <2>3, <2>4, PushedIsPopped, Shapes
  <2>7. T[Len(expression)] = {[from |-> ends[k - 1] + 1, value |-> y]}
    BY <1>1, <1>3, <1>7, <2>2
  <2>8. T[(ends[k - 1] + 1) - 1] = {[from |-> ends[k - 2] + 1, value |-> x]}
    <3>1. (ends[k - 1] + 1) - 1 = ends[k - 1]
      BY <1>1, <1>4, <1>7
    <3> QED
      BY <1>3, <1>7, <2>2, <3>1
  <2>9. Postfix!Term'[n] = {[from |-> ends[k - 2] + 1, value |-> a]}
    <3>1. PICK q : q = [from |-> ends[k - 1] + 1, value |-> y]
      OBVIOUS
    <3>2. PICK p : p = [from |-> ends[k - 2] + 1, value |-> x]
      OBVIOUS
    <3>3. T[Len(expression)] = {q} /\ T[q.from - 1] = {p}
      BY <2>7, <2>8, <3>1, <3>2
    <3>4. q.value = y /\ p.value = x /\ p.from = ends[k - 2] + 1
      BY <3>1, <3>2
    <3> HIDE DEF T, n, k
    <3>5. Postfix!Term'[n] = {[from |-> p.from, value |-> Postfix!Apply(o, p.value, q.value)]}
      BY <1>2, <3>3
    <3> QED
      BY <2>3, <3>4, <3>5
  <2>10. Postfix!Term'[n] = {[from |-> ends[k - 2] + 1, value |-> v] : v \in Postfix!PopValue(z)}
    BY <2>6, <2>9
  <2>11. k - 2 \in 0 .. k
    BY <1>1, <1>7
  <2> QED
    BY <2>5, <2>6, <2>10, <2>11, PushKeepsTerms
<1>8. Postfix!TypeOK
  BY DEF PostfixTypes
<1> QED
  BY <1>5, <1>6, <1>7, <1>8, BinaryDoes

\* While it is evaluated, an expression without assignments has changed nothing.
NothingAssigned == Postfix!Running /\ Postfix!Assignments = {} => dictionary = given

\* What an evaluation leaves where the variables it has changed are reported.
LEMMA TokenKeepsAssigned ==
  ASSUME PostfixTypes, Postfix!AssignedTellsWhatChanged, NEW t \in Postfix!Tokens, Postfix!EvaluateToken(t)
  PROVE  Postfix!AssignedTellsWhatChanged'
<1>1. doing \in {"Evaluate", "EvaluateForValue"} /\ given' = given /\ Len(stack) \in Nat /\ Postfix!TypeOK
  BY TypesMean DEF Postfix!EvaluateToken, Postfix!Running, PostfixTypes
<1>2. \A i \in DOMAIN dictionary :
        i \notin DOMAIN given \/ dictionary[i] # given[i] =>
          i \in Variables /\ (doing = "Evaluate" => i \in assigned)
  BY DEF Postfix!AssignedTellsWhatChanged
<1> DEFINE Reported ==
      \A i \in DOMAIN dictionary' :
        i \notin DOMAIN given \/ dictionary'[i] # given[i] =>
          i \in Variables /\ (doing = "Evaluate" => i \in assigned')
<1>3. ASSUME UNCHANGED <<dictionary, assigned>> PROVE Reported
  BY <1>2, <1>3
<1>4. CASE Postfix!Fail
  <2>1. Reported
    BY <1>3, <1>4, FailTypes
  <2>2. doing' = "idle" /\ answer'.by = doing
    BY <1>4, FailTypes
  <2> HIDE DEF Reported
  <2>3. doing' # "Evaluate" /\ (Postfix!Answered("Evaluate")' => doing = "Evaluate")
    BY <2>2 DEF Postfix!Answered
  <2> QED
    BY <1>1, <2>1, <2>3 DEF Postfix!AssignedTellsWhatChanged, Reported
<1>5. CASE Postfix!Undefined
  BY <1>1, <1>5 DEF Postfix!Undefined, Postfix!AssignedTellsWhatChanged, Postfix!Answered
<1>6. ASSUME Reported, doing' = doing PROVE Postfix!AssignedTellsWhatChanged'
  <2>1. doing' # "idle"
    BY <1>1, <1>6
  <2> QED
    BY <1>1, <1>6, <2>1 DEF Postfix!AssignedTellsWhatChanged, Postfix!Answered
<1>7. ASSUME UNCHANGED <<dictionary, assigned, doing>> PROVE Postfix!AssignedTellsWhatChanged'
  BY <1>3, <1>6, <1>7
<1> HIDE DEF Reported
<1>8. CASE \E o \in Postfix!BinaryOperations : t = Postfix!Operator(o) /\ Postfix!Binary(o)
  BY <1>1, <1>4, <1>5, <1>7, <1>8, BinaryDoes DEF Postfix!Push
<1>9. CASE Postfix!Dereference
  BY <1>4, <1>7, <1>9, DereferenceDoes DEF Postfix!Push
<1>10. CASE Postfix!Assign
  <2>1. SUFFICES ASSUME ~Postfix!Fail, ~Postfix!Undefined PROVE Postfix!AssignedTellsWhatChanged'
    BY <1>4, <1>5
  <2>2. PICK i, v :
          /\ i \in Variables
          /\ dictionary' = Postfix!Storing(i, v)
          /\ assigned' = IF doing = "Evaluate" THEN assigned \cup {i} ELSE assigned
          /\ doing' = doing
    BY <1>1, <1>10, <2>1, AssignDoes
  <2>3. Reported
    BY <1>2, <2>2 DEF Reported, Postfix!Storing
  <2> QED
    BY <1>6, <2>2, <2>3
<1>11. CASE /\ ~Postfix!IsOperator(t) /\ stack' = Append(stack, t)
            /\ UNCHANGED <<dictionary, assigned, doing, answer>>
  BY <1>7, <1>11
<1> QED
  BY <1>8, <1>9, <1>10, <1>11 DEF Postfix!EvaluateToken

\* A token that is not an assignment keeps what an evaluation is worth.
LEMMA TokenKeepsTerms ==
  ASSUME PostfixTypes, NothingAssigned, StackHasTheTerms, Postfix!Assignments = {},
         NEW t \in Postfix!Tokens, t # Postfix!Operator("="), Postfix!EvaluateToken(t)
  PROVE  /\ (StackHasTheTerms' /\ doing' = doing) \/ FailsWithoutTerm \/ doing' = "undefined"
         /\ dictionary' = given'
<1>1. Postfix!Running /\ dictionary = given /\ given' = given /\ Postfix!TypeOK
  BY DEF Postfix!EvaluateToken, NothingAssigned, PostfixTypes
<1>2. PICK ends \in [0 .. Len(stack) -> 0 .. Len(expression)] : StackTerms(ends)
  BY <1>1 DEF StackHasTheTerms
<1>3. CASE \E o \in Postfix!BinaryOperations : t = Postfix!Operator(o) /\ Postfix!Binary(o)
  <2>1. PICK o \in Postfix!BinaryOperations : t = Postfix!Operator(o) /\ Postfix!Binary(o)
    BY <1>3
  <2>2. dictionary' = dictionary
    BY <1>1, <2>1, BinaryDoes DEF Postfix!Push, Postfix!Fail, Postfix!Undefined
  <2> QED
    BY <1>1, <1>2, <2>1, <2>2, BinaryKeepsTerms
<1>4. CASE t = Postfix!Operator("^") /\ Postfix!Dereference
  <2>1. dictionary' = dictionary
    BY <1>4, DereferenceDoes DEF Postfix!Push, Postfix!Fail
  <2> QED
    BY <1>1, <1>2, <1>4, <2>1, DereferenceKeepsTerms
<1>5. CASE /\ ~Postfix!IsOperator(t) /\ stack' = Append(stack, t)
           /\ UNCHANGED <<dictionary, assigned, doing, answer>>
  BY <1>1, <1>2, <1>5, OperandKeepsTerms
<1> QED
  BY <1>3, <1>4, <1>5 DEF Postfix!EvaluateToken

\* An assignment stores the value of the term before it.
LEMMA AssignStoresTheTerm ==
  ASSUME PostfixTypes, NothingAssigned, StackHasTheTerms, Postfix!Assignments = {},
         Postfix!EvaluateToken(Postfix!Operator("=")), Postfix!Operator("=") \in Postfix!Tokens,
         Postfix!Running'
  PROVE  \E u \in Postfix!Term'[Len(expression)] :
           LET to == expression'[u.from - 1]
           IN u.from > 1 /\ Postfix!IsIdentifier(to) /\ dictionary'[to.identifier] = u.value
<1>1. Postfix!Running /\ Postfix!TypeOK /\ Len(stack) \in Nat /\ Len(expression) \in Nat
  BY TypesMean DEF Postfix!EvaluateToken, PostfixTypes
<1>2. PICK ends \in [0 .. Len(stack) -> 0 .. Len(expression)] : StackTerms(ends)
  BY <1>1 DEF StackHasTheTerms
<1>3. Postfix!Assign
  <2>1. \A o : Postfix!Operator(o).operator = o
    BY Shapes
  <2>2. \A o \in Postfix!BinaryOperations \cup {"^"} : o # "="
    BY DEF Postfix!BinaryOperations
  <2>3. \A o \in Postfix!BinaryOperations \cup {"^"} : Postfix!Operator("=") # Postfix!Operator(o)
    BY <2>1, <2>2
  <2> QED
    BY <2>3, Shapes DEF Postfix!EvaluateToken
<1>4. ~Postfix!Fail /\ ~Postfix!Undefined
  BY DEF Postfix!Running, Postfix!Fail, Postfix!Return, Postfix!Undefined
<1> DEFINE k == Len(stack)
<1>5. PICK v \in Postfix!PopValue(Postfix!Top(1)) :
        /\ k >= 2 /\ Postfix!IsIdentifier(Postfix!Top(2))
        /\ dictionary' = Postfix!Storing(Postfix!Top(2).identifier, v)
  BY <1>1, <1>3, <1>4, AssignDoes
<1>6. /\ \A m \in 0 .. Len(expression) : Postfix!Term'[m] = Postfix!Term[m]
      /\ \A m \in 1 .. Len(expression) : expression'[m] = expression[m]
  BY TokenTerms
<1>7. PICK u : u = [from |-> ends[k - 1] + 1, value |-> v]
  OBVIOUS
<1>8. u \in Postfix!Term'[Len(expression)]
  <2>1. k >= 1
    BY <1>1, <1>5
  <2>2. u \in Postfix!Term[Len(expression)]
    BY <1>2, <1>5, <1>7, <2>1, TopTerms
  <2>3. Len(expression) \in 0 .. Len(expression)
    BY <1>1
  <2> QED
    BY <1>6, <2>2, <2>3
<1>9. ends[k - 1] \in 1 .. Len(expression) /\ expression[ends[k - 1]] = Postfix!Top(2)
  <2>1. k - 1 \in 1 .. k /\ k - 1 \in 0 .. k /\ (k - 1) - 1 \in 0 .. k /\ Postfix!Top(2) = stack[k - 1]
    BY <1>1, <1>5 DEF Postfix!Top
  <2>2. /\ ends[(k - 1) - 1] < ends[k - 1]
        /\ Postfix!IsIdentifier(stack[k - 1]) => expression[ends[k - 1]] = stack[k - 1]
    BY <1>2, <2>1 DEF StackTerms
  <2>3. ends[(k - 1) - 1] \in 0 .. Len(expression) /\ ends[k - 1] \in 0 .. Len(expression)
    BY <2>1
  <2>4. ends[k - 1] \in 1 .. Len(expression)
    BY <1>1, <2>2, <2>3
  <2> QED
    BY <1>5, <2>1, <2>2, <2>4
<1>10. u.from > 1 /\ u.from - 1 = ends[k - 1] /\ u.value = v
  BY <1>1, <1>7, <1>9
<1>11. expression'[u.from - 1] = Postfix!Top(2)
  BY <1>6, <1>9, <1>10
<1>12. dictionary'[Postfix!Top(2).identifier] = v
  BY <1>5 DEF Postfix!Storing
<1> HIDE DEF k
<1> QED
  BY <1>5, <1>8, <1>10, <1>11, <1>12

\* What the evaluator always keeps.
PostfixIInv ==
  /\ PostfixTypes /\ NothingAssigned /\ StackHasTheTerms
  /\ Postfix!ValuesAreTheTerms /\ Postfix!AssignedTellsWhatChanged

LEMMA TokenKeeps ==
  ASSUME PostfixIInv, NEW t \in Postfix!Tokens, Postfix!EvaluateToken(t)
  PROVE  PostfixIInv'
<1>1. PostfixTypes' /\ Postfix!AssignedTellsWhatChanged'
  BY TokenKeepsTypes, TokenKeepsAssigned DEF PostfixIInv
<1> DEFINE n == Len(expression) + 1
<1>2. /\ Len(expression) \in Nat /\ Len(expression') = n /\ expression' # << >>
      /\ Postfix!Assignments' = Postfix!Assignments \cup {m \in {n} : t = Postfix!Operator("=")}
      /\ Postfix!Assignments \subseteq 1 .. Len(expression)
      /\ \A m \in 0 .. Len(expression) : Postfix!Term'[m] = Postfix!Term[m]
  BY TokenTerms, TypesMean DEF PostfixIInv, PostfixTypes, Postfix!EvaluateToken
<1>3. CASE Postfix!Assignments' = {}
  <2>1. Postfix!Assignments = {} /\ t # Postfix!Operator("=")
    BY <1>2, <1>3
  <2>2. /\ (StackHasTheTerms' /\ doing' = doing) \/ FailsWithoutTerm \/ doing' = "undefined"
        /\ dictionary' = given'
    BY <2>1, TokenKeepsTerms DEF PostfixIInv
  <2>3. StackHasTheTerms'
    BY <2>2 DEF FailsWithoutTerm, StackHasTheTerms, Postfix!Running
  <2>4. doing' = "idle" => FailsWithoutTerm
    BY <2>2 DEF Postfix!EvaluateToken, Postfix!Running
  <2>5. Postfix!ValuesAreTheTerms'
    <3>1. CASE doing' = "idle"
      <4>1. answer'.ok = FALSE /\ Postfix!Term'[Len(expression')] = {}
        BY <1>2, <2>4, <3>1 DEF FailsWithoutTerm
      <4> QED
        BY <3>1, <4>1 DEF Postfix!ValuesAreTheTerms, Postfix!Running
    <3>2. CASE doing' # "idle"
      BY <1>2, <1>3, <3>2 DEF Postfix!ValuesAreTheTerms, Postfix!Answered
    <3> QED
      BY <3>1, <3>2
  <2> QED
    BY <1>1, <2>2, <2>3, <2>5 DEF PostfixIInv, NothingAssigned
<1>4. CASE Postfix!Assignments' # {}
  <2>1. NothingAssigned' /\ StackHasTheTerms'
    BY <1>4 DEF NothingAssigned, StackHasTheTerms
  <2>2. ASSUME Postfix!Running', Postfix!Assignments' = {Len(expression')}
        PROVE  \E u \in Postfix!Term'[Len(expression') - 1] :
                 LET to == expression'[u.from - 1]
                 IN u.from > 1 /\ Postfix!IsIdentifier(to) /\ dictionary'[to.identifier] = u.value
    <3>1. Postfix!Assignments = {} /\ t = Postfix!Operator("=")
      BY <1>2, <2>2
    <3>2. Len(expression') - 1 = Len(expression)
      BY <1>2
    <3> QED
      BY <2>2, <3>1, <3>2, AssignStoresTheTerm DEF PostfixIInv
  <2>3. Postfix!ValuesAreTheTerms'
    BY <1>4, <2>2 DEF Postfix!ValuesAreTheTerms
  <2> QED
    BY <1>1, <2>1, <2>3 DEF PostfixIInv
<1> QED
  BY <1>3, <1>4

\* The answer of a call is the value of its one term, if it has one.
LEMMA EndKeeps ==
  ASSUME PostfixIInv, Postfix!EndOfExpression
  PROVE  PostfixIInv'
<1>1. /\ doing \in {"Evaluate", "EvaluateForValue"}
      /\ UNCHANGED <<dictionary, memory, assigned, expression, given>>
      /\ Postfix!TypeOK
  BY DEF Postfix!EndOfExpression, Postfix!Running, PostfixIInv, PostfixTypes
<1>2. /\ Len(stack) \in Nat /\ Len(expression) \in Nat /\ 0 \in Postfix!Value
      /\ \A i \in 1 .. Len(stack) : stack[i] \in StackTokens
  BY <1>1, TypesMean, EvaluatorAssumed DEF Evaluator, Postfix!Value
<1>3. Postfix!Term' = Postfix!Term
  BY <1>1, TermIsTermsOf
<1>4. \/ doing = "Evaluate" /\ \E ok \in BOOLEAN : Postfix!Return(ok, 0)
      \/ /\ doing = "EvaluateForValue" /\ Postfix!Return(FALSE, 0)
         /\ Len(stack) # 1 \/ Postfix!PopValue(Postfix!Top(1)) = {}
      \/ /\ doing = "EvaluateForValue" /\ Len(stack) = 1
         /\ \E v \in Postfix!PopValue(Postfix!Top(1)) :
              Postfix!Return(TRUE, v) /\ Postfix!PopValue(Postfix!Top(1)) = {v} /\ v \in Postfix!Value
  <2>1. CASE doing = "Evaluate"
    BY <2>1 DEF Postfix!EndOfExpression
  <2>2. CASE doing # "Evaluate" /\ (Len(stack) # 1 \/ Postfix!PopValue(Postfix!Top(1)) = {})
    BY <1>1, <2>2 DEF Postfix!EndOfExpression
  <2>3. CASE doing # "Evaluate" /\ ~(Len(stack) # 1 \/ Postfix!PopValue(Postfix!Top(1)) = {})
    <3>1. PICK v \in Postfix!PopValue(Postfix!Top(1)) : Postfix!Return(TRUE, v)
      BY <2>3 DEF Postfix!EndOfExpression
    <3>2. Postfix!Top(1) \in StackTokens
      BY <1>2, <2>3 DEF Postfix!Top
    <3>3. Postfix!PopValue(Postfix!Top(1)) = {v}
      BY <3>2, TokenShapes, Shapes DEF Postfix!PopValue
    <3>4. v \in Postfix!Value
      BY <1>1, <3>2, PoppedIsAValue
    <3> QED
      BY <1>1, <2>3, <3>1, <3>3, <3>4
  <2> QED
    BY <2>1, <2>2, <2>3
<1>5. /\ doing' = "idle" /\ stack' = << >>
      /\ answer'.ok \in BOOLEAN /\ answer'.value \in Postfix!Value /\ answer'.by = doing
  <2>1. PICK ok \in BOOLEAN, v \in Postfix!Value : Postfix!Return(ok, v)
    BY <1>2, <1>4
  <2>2. answer' = [by |-> doing, ok |-> ok, value |-> v]
    BY <2>1 DEF Postfix!Return
  <2> QED
    BY <2>1, <2>2 DEF Postfix!Return
<1>6. PostfixTypes'
  BY <1>1, <1>5 DEF PostfixIInv, PostfixTypes, Postfix!TypeOK, Postfix!Value
<1>7. NothingAssigned' /\ StackHasTheTerms' /\ ~Postfix!Running'
  BY <1>5 DEF NothingAssigned, StackHasTheTerms, Postfix!Running
<1>8. Postfix!AssignedTellsWhatChanged'
  <2>1. Postfix!Answered("Evaluate")' => doing = "Evaluate"
    BY <1>5 DEF Postfix!Answered
  <2> QED
    BY <1>1, <1>5, <2>1 DEF Postfix!AssignedTellsWhatChanged, PostfixIInv
<1>9. ASSUME doing = "EvaluateForValue", expression # << >>, Postfix!Assignments = {}
      PROVE  {v \in {answer'.value} : answer'.ok}
               = {u.value : u \in {w \in Postfix!Term[Len(expression)] : w.from = 1}}
  <2>1. PICK ends \in [0 .. Len(stack) -> 0 .. Len(expression)] : StackTerms(ends)
    BY <1>1, <1>9 DEF PostfixIInv, StackHasTheTerms, Postfix!Running
  <2> DEFINE k == Len(stack)
             T == Postfix!Term[Len(expression)]
  <2>2. /\ k = 0 => T = {}
        /\ k >= 1 => T = {[from |-> ends[k - 1] + 1, value |-> v] : v \in Postfix!PopValue(Postfix!Top(1))}
        /\ k = 1 => ends[k - 1] = 0
    BY <2>1, TopTerms DEF PostfixIInv
  <2>3. CASE Postfix!Return(FALSE, 0) /\ (k # 1 \/ Postfix!PopValue(Postfix!Top(1)) = {})
    <3>1. answer'.ok = FALSE
      BY <2>3 DEF Postfix!Return
    <3>2. \A w \in T : w.from # 1
      <4>1. CASE k = 0
        BY <2>2, <4>1
      <4>2. CASE k = 1
        BY <2>2, <2>3, <4>2
      <4>3. CASE k > 1
        <5>1. k - 1 \in 1 .. k /\ k - 1 \in 0 .. k /\ (k - 1) - 1 \in 0 .. k
          BY <1>2, <4>3
        <5>2. ends[(k - 1) - 1] < ends[k - 1]
          BY <2>1, <5>1 DEF StackTerms
        <5>3. ends[(k - 1) - 1] \in 0 .. Len(expression) /\ ends[k - 1] \in 0 .. Len(expression)
          BY <5>1
        <5>4. ends[k - 1] + 1 # 1
          BY <1>2, <5>2, <5>3
        <5> QED
          BY <1>2, <2>2, <4>3, <5>4
      <4>4. k = 0 \/ k = 1 \/ k > 1
        BY <1>2
      <4> HIDE DEF k, T
      <4> QED
        BY <4>1, <4>2, <4>3, <4>4
    <3> QED
      BY <3>1, <3>2
  <2>4. CASE /\ k = 1
             /\ \E v \in Postfix!PopValue(Postfix!Top(1)) :
                  Postfix!Return(TRUE, v) /\ Postfix!PopValue(Postfix!Top(1)) = {v}
    <3>1. PICK v : Postfix!Return(TRUE, v) /\ Postfix!PopValue(Postfix!Top(1)) = {v}
      BY <2>4
    <3>2. PICK w : w = [from |-> 1, value |-> v]
      OBVIOUS
    <3>3. T = {w} /\ w.from = 1 /\ w.value = v
      BY <2>2, <2>4, <3>1, <3>2
    <3>4. answer'.ok = TRUE /\ answer'.value = v
      BY <3>1 DEF Postfix!Return
    <3> QED
      BY <3>3, <3>4
  <2> QED
    BY <1>4, <1>9, <2>3, <2>4
<1>10. Postfix!ValuesAreTheTerms'
  BY <1>1, <1>3, <1>5, <1>7, <1>9 DEF Postfix!ValuesAreTheTerms, Postfix!Answered, Postfix!Assignments
<1> QED
  BY <1>6, <1>7, <1>8, <1>10 DEF PostfixIInv

LEMMA CallKeeps ==
  ASSUME PostfixIInv, NEW f \in {"Evaluate", "EvaluateForValue"}, Postfix!Call(f)
  PROVE  PostfixIInv'
<1>1. /\ doing' = f /\ assigned' = {} /\ given' = dictionary /\ expression = << >> /\ stack = << >>
      /\ UNCHANGED <<dictionary, memory, stack, answer, expression>>
  BY DEF Postfix!Call, PostfixIInv, PostfixTypes
<1>2. PostfixTypes'
  BY <1>1 DEF PostfixIInv, PostfixTypes, Postfix!TypeOK
<1>3. StackHasTheTerms'
  <2>1. PICK ends : ends = [i \in {0} |-> 0]
    OBVIOUS
  <2>2. ends \in [0 .. 0 -> 0 .. 0] /\ ends[0] = 0
    BY <2>1
  <2>3. Len(stack') = 0 /\ Len(expression') = 0 /\ 1 .. 0 = {}
    BY <1>1
  <2>4. StackTerms(ends)'
    BY <2>2, <2>3 DEF StackTerms
  <2> QED
    BY <2>2, <2>3, <2>4 DEF StackHasTheTerms
<1>4. NothingAssigned' /\ Postfix!AssignedTellsWhatChanged'
  BY <1>1 DEF NothingAssigned, Postfix!AssignedTellsWhatChanged
<1>5. Postfix!ValuesAreTheTerms'
  BY <1>1 DEF Postfix!ValuesAreTheTerms, Postfix!Answered
<1> QED
  BY <1>2, <1>3, <1>4, <1>5 DEF PostfixIInv

LEMMA ForgetKeeps ==
  ASSUME PostfixIInv, Postfix!Forget
  PROVE  PostfixIInv'
<1>1. /\ doing = "idle" /\ expression' = << >>
      /\ UNCHANGED <<dictionary, memory, stack, assigned, doing, answer, given>>
  BY DEF Postfix!Forget
<1>2. PostfixTypes'
  BY <1>1 DEF PostfixIInv, PostfixTypes, Postfix!TypeOK
<1>3. ~Postfix!Running' /\ \A function : ~Postfix!Answered(function)'
  BY <1>1 DEF Postfix!Running, Postfix!Answered
<1>4. Postfix!AssignedTellsWhatChanged'
  BY <1>1, <1>3 DEF PostfixIInv, Postfix!AssignedTellsWhatChanged
<1> QED
  BY <1>2, <1>3, <1>4 DEF PostfixIInv, NothingAssigned, StackHasTheTerms, Postfix!ValuesAreTheTerms

LEMMA PostfixInductive == Spec => []PostfixIInv
<1>1. Init => PostfixIInv
  <2> SUFFICES ASSUME Init PROVE PostfixIInv
    OBVIOUS
  <2>1. /\ dictionary = [i \in Constants |-> 1] /\ given = dictionary
        /\ memory \in {<< >>, [a \in 0 .. EvaluatorValues - 2 |-> a + 1]}
        /\ stack = << >> /\ assigned = {} /\ doing = "idle" /\ expression = << >>
        /\ answer = [by |-> "Evaluate", ok |-> FALSE, value |-> 0]
    BY DEF Init, Postfix!Init
  <2>2. 1 \in Postfix!Value /\ 0 \in Postfix!Value
    BY EvaluatorAssumed DEF Evaluator, Postfix!Value
  <2>3. PostfixTypes
    BY <2>1, <2>2 DEF PostfixTypes, Postfix!TypeOK, Postfix!Value
  <2>4. ~Postfix!Running /\ \A function : ~Postfix!Answered(function)
    BY <2>1 DEF Postfix!Running, Postfix!Answered
  <2>5. Postfix!AssignedTellsWhatChanged
    BY <2>1 DEF Postfix!AssignedTellsWhatChanged
  <2> QED
    BY <2>3, <2>4, <2>5 DEF PostfixIInv, NothingAssigned, StackHasTheTerms, Postfix!ValuesAreTheTerms
<1>2. PostfixIInv /\ [Next]_vars => PostfixIInv'
  <2> SUFFICES ASSUME PostfixIInv, [Next]_vars PROVE PostfixIInv'
    OBVIOUS
  <2>1. CASE Postfix!Next
    <3>1. CASE \E f \in {"Evaluate", "EvaluateForValue"} : Postfix!Call(f)
      BY <3>1, CallKeeps
    <3>2. CASE \E t \in Postfix!Tokens : Postfix!EvaluateToken(t)
      BY <3>2, TokenKeeps
    <3> QED
      BY <2>1, <3>1, <3>2, EndKeeps, ForgetKeeps DEF Postfix!Next
  <2>2. CASE UNCHANGED postfix
    <3>1. UNCHANGED <<dictionary, memory, stack, assigned, doing, answer, expression, given>>
      BY <2>2 DEF postfix
    <3>2. Postfix!Term' = Postfix!Term
      BY <3>1, TermIsTermsOf
    <3>3. PostfixTypes' /\ NothingAssigned' /\ Postfix!AssignedTellsWhatChanged'
      BY <3>1 DEF PostfixIInv, PostfixTypes, Postfix!TypeOK, NothingAssigned, Postfix!Running,
                  Postfix!Assignments, Postfix!AssignedTellsWhatChanged, Postfix!Answered
    <3>4. StackHasTheTerms'
      <4>1. ASSUME NEW ends, StackTerms(ends) PROVE StackTerms(ends)'
        BY <3>1, <3>2, <4>1 DEF StackTerms, Postfix!PopValue
      <4> QED
        BY <3>1, <4>1 DEF PostfixIInv, StackHasTheTerms, Postfix!Running, Postfix!Assignments
    <3>5. Postfix!ValuesAreTheTerms'
      BY <3>1, <3>2 DEF PostfixIInv, Postfix!ValuesAreTheTerms, Postfix!Answered,
                        Postfix!Running, Postfix!Assignments
    <3> QED
      BY <3>3, <3>4, <3>5 DEF PostfixIInv
  <2> QED
    BY <2>1, <2>2 DEF Next, On, vars
<1> QED
  BY <1>1, <1>2, PTL DEF Spec

\* For any width of values, any variables and constants and expressions of any
\* length, what the postfix evaluator returns is the value of its expression
\* and assigned has what it has changed; and for any values of registers, any
\* rules and any number of frames, the registers SimpleCFIWalker calls valid
\* are right and the others have the fill pattern.
THEOREM RecoveredAreRight == Spec => []RecoveredRegistersAreRight
<1>1. PostfixIInv /\ WalkerIInv => RecoveredRegistersAreRight
  BY DEF PostfixIInv, PostfixTypes, WalkerIInv, RecoveredRegistersAreRight
<1> QED
  BY <1>1, PostfixInductive, WalkerInductive, PTL
=============================================================================
