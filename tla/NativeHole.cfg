SPECIFICATION Spec
CONSTANTS
  NumServers = 3
  Client = {a1, z1}
  Appenders = {a1}
  Sealers = {z1}
  Readers = {}
  Trimmers = {}
  Entry = {e1}
  NoEntry = NoEntry
  NoOne = NoOne
  Capacity = 2
  MaxPos = 1
  MaxCrashes = 0
INVARIANTS SealedTailFollowsAnEntry
