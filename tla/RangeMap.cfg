CONSTANT Space = 5
SPECIFICATION Spec
INVARIANTS
  TypeOK
  Disjoint
  DeltaLeadsBack
  LookupsAreRight
PROPERTIES
  FailureChangesNothing
  StoreFollowsStrategy
  RefusesOnlyConflicts
