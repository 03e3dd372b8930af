SPECIFICATION Spec
CONSTANTS
  Instances = {a, b}
  Versions = {1, 2}
  Commands = {c1, c2, c3}
  Exclusive = TRUE
  Events = {"edit", "reboot", "legacy", "elsewhere"}
  Nobody = Nobody
SYMMETRY Symmetric
VIEW View
INVARIANTS
  RestoreNeverRefused
CHECK_DEADLOCK FALSE
PROPERTIES
  DeploysOwnDatabase
  RestoreReturnsSnapshot
  MigrationHasPriorSnapshot
