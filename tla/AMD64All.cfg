\* Contexts of AMD64, too, are filled in with their _ALL macro.
SPECIFICATION Spec
CONSTANT AllUsed = {"X86", "AMD64", "ARM", "ARM64", "ARM64_OLD", "PPC", "PPC64", "SPARC"}
INVARIANT CpuIsIdentified
