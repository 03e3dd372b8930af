SPECIFICATION Spec
CONSTANTS
  Names = {n1}
  Publishers = {p1, p2}
  Importers = {i1}
  MaxBatch = 2
  MaxUserSteps = 3
  None = None
  User = User
SYMMETRY Symmetric
INVARIANTS
  FailedLeavesNothing
  NothingHalfRegistered
PROPERTIES
  RollbackSparesOthers
  PublishedIsThere
CHECK_DEADLOCK FALSE
