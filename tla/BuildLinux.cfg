CONSTANT MaxEdits = 3
SPECIFICATION Spec
INVARIANTS
  TypeOK
  OkPublishesOneBuild
  SymbolsNeverLag
  OkSymbolsHaveLines
