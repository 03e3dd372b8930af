SPECIFICATION FairSpec
CONSTANTS
  Jobs = {j1, j2}
  Repos = {r1}
  Branches = {b1}
  Commits = {}
  Blobs = {}
  Events = {"delete", "restart", "crash"}
  NoRepo = NoRepo
  NoCommit = NoCommit
INVARIANTS
  HoldLeftOnlyByReportedFailure
PROPERTIES
  HoldEnds
CHECK_DEADLOCK FALSE
