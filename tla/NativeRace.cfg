SPECIFICATION Spec
CONSTANTS
  NumServers = 3
  Client = {a1, x1}
  Appenders = {a1, x1}
  Sealers = {x1}
  Readers = {a1}
  Trimmers = {x1}
  Entry = {e1, e2}
  NoEntry = NoEntry
  NoOne = NoOne
  Capacity = 1
  MaxPos = 2
  MaxCrashes = 0
SYMMETRY EntrySymmetry
INVARIANTS TypeOK ReplicaAgreement AckedDurable SealBoundsAcks
PROPERTIES SealFreezesServers ImplementsLoglet ReadsFindAcked TrimTakesEffect
