\* Every portable structure in arrays of three; every CPU but AMD64 and MIPS;
\* buffers of three bytes of four values, read into types of up to four, with a
\* size_t of two; files and expressions of five tokens; walks of four frames.
SPECIFICATION Spec
CONSTANTS
  Elements = 3
  AllUsed = {"X86", "ARM", "ARM64", "ARM64_OLD", "PPC", "PPC64", "SPARC"}
  Byte = 4
  TypeSizes = {1, 2, 4}
  SizeT = 2
  BufferLength = 3
  kMaxCpus = 11
  kMaskWordBits = 4
  BufferSize = 6
  Numbers = {2, 12}
  MaxFile = 5
  Variables = {"$x"}
  Constants = {".cfa"}
  EvaluatorValues = 4
  Unsigned = {}
  Negated = {2}
  MaxLength = 5
  StackPointer = "$esp"
  ProgramCounter = "$eip"
  CalleeSaved = {"$ebx"}
  Scratch = {"$eax"}
  Registers = {"old", "new"}
  MaxFrames = 4
INVARIANTS
  DumpsMeanTheSameEverywhere
  ReadersTellTheTruth
  RecoveredRegistersAreRight
CHECK_DEADLOCK FALSE
