\* Two scripts over two files that hold two builds of one library.
CONSTANTS
  Walkers = {w1, w2}
  Modules <- MCModules
  Ids = {"A1", "B2"}
  Contents <- MCContents
  SymNames <- MCSymNames
  SymFileOf <- MCSymFileOf
  Cut = "libcrash.s"
  Concurrent = FALSE
SYMMETRY MCSymmetry
SPECIFICATION Spec
INVARIANTS
  TypeOK
  OwnSymbolsOnly
  WalkFindsSymbols
