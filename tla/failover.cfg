SPECIFICATION FairSpec
CONSTANTS
  Hosts = {p, s}
  Primary = p
  Writes = {w1}
  Backups = {b1, b2}
  DNSDrivers = {"cloudflare", "rfc2136", "print"}
  MaxNow = 1
  MaxPromotes = 2
  None = None
  Torn = Torn
PROPERTIES
  NameMovesToServing
  FlipLeavesOne
  RestoredAsShown
  NewestHoldsAll
  ClientsFollow
CHECK_DEADLOCK FALSE
