SPECIFICATION Spec
CONSTANTS
  Jobs = {j1}
  Repos = {r1}
  Branches = {b1}
  Commits = {c1, c2}
  Blobs = {x1}
  Events = {"http", "ssh", "delete", "gc"}
  NoRepo = NoRepo
  NoCommit = NoCommit
SYMMETRY Symmetric
VIEW View
INVARIANTS
  TypeOK
  PinnedRefsBacked
  RestoredTipsMatchDatabase
  PinnedRefsMatchDatabase
  KeptIsCaptured
CHECK_DEADLOCK FALSE
