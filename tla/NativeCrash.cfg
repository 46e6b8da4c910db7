SPECIFICATION FairSpec
CONSTANTS
  NumServers = 3
  Client = {a1, x1}
  Appenders = {a1}
  Sealers = {x1}
  Readers = {x1}
  Trimmers = {x1}
  Entry = {e1}
  NoEntry = NoEntry
  NoOne = NoOne
  Capacity = 1
  MaxPos = 1
  MaxCrashes = 2
INVARIANTS AckedOutlives
PROPERTIES ReadsFindAcked CallsReturn
