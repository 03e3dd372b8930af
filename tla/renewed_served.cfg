SPECIFICATION Spec
CONSTANTS
  Hosts = {h1}
  Commands = {c1, c2}
  MaxSerial = 3
  MaxPairs = 2
  Nowhere = Nowhere
SYMMETRY Symmetric
PROPERTIES
  RenewedIsServed
