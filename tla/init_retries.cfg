SPECIFICATION Spec
CONSTANTS
  Runs = {r1, r2, r3}
  Dirs = {d1, d2}
  Targets = {t1, t2}
  NoTarget = NoTarget
  Absent = Absent
  Empty = Empty
  Exclusive = TRUE
  Events = {"switch", "torn-store", "torn-save", "unremoved", "obey"}
SYMMETRY Symmetric
INVARIANTS
  BundleHasIdentity
PROPERTIES
  IdentityNeverChanges
  RetryRefusedOnlyIfTorn
CHECK_DEADLOCK FALSE
