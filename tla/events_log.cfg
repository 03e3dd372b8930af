SPECIFICATION StreamFairSpec
CONSTANTS
  cli = cli
  client = client
  Readers = {cli, client}
  Cli = cli
  Depth = 3
  MaxEvents = 2
  MaxCalls = 2
INVARIANTS
  StreamTypeOK
  RelayedInOrder
  NoEmitAfterEnd
PROPERTIES
  ImplementsEventLog
  ForwardersEnd
  RunJobReturns
CHECK_DEADLOCK FALSE
