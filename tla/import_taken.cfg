SPECIFICATION Spec
CONSTANTS
  Names = {n1}
  Publishers = {p1}
  Importers = {i1, i2}
  MaxBatch = 1
  MaxUserSteps = 1
  None = None
  User = User
PROPERTY
  CleanupSparesOthers
CHECK_DEADLOCK FALSE
