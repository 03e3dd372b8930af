SPECIFICATION FairSpec
CONSTANTS
  Dirs = {live, scratch}
  Live = live
  Services = {forgejo, runner}
  Core = {forgejo}
  Commands = {c1, c2}
  Faults = {"kill", "fail", "cut-remove", "cut-install", "legacy"}
  Legacy = Legacy
  None = None
INVARIANTS
  Addressable
PROPERTIES
  DeploymentsApart
  CleanMeansGone
  DrillsTearDown
CHECK_DEADLOCK FALSE
