SPECIFICATION FairSpec
CONSTANTS
  lan = lan
  loop = loop
  Domain = Domain
  None = None
  Addresses = {lan, loop}
  Loopback = {loop}
  WebPorts = {9443}
  PublicPorts = {9443}
  MaxIssued = 2
  MaxEdits = 1
INVARIANTS NamedBundleHasPair BundleNamedFirst DeployedIsServed
PROPERTY NameIsReached
CHECK_DEADLOCK FALSE
