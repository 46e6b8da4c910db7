SPECIFICATION FairSpec
CONSTANTS
  NoEntry = NoEntry
  Task = {a1, z1, x1}
  Appenders = {a1}
  Sealers = {z1}
  Readers = {x1}
  Trimmers = {x1}
  MaxAppends = 3
  MaxSeals = 2
  MaxSegments = 5
CHECK_DEADLOCK FALSE
INVARIANTS TypeOK AckedReadable ChainTiles TrimmedOnlyBelow
PROPERTIES ImplementsSharedLog AppendsReturn ReadsFindAcked CheckTailIsCurrent TrimTakesEffect
