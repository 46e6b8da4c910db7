SPECIFICATION Spec
CONSTANTS
  NoEntry = NoEntry
  Task = {a1, a2, z1}
  Appenders = {a1, a2}
  Sealers = {z1}
  Readers = {}
  Trimmers = {}
  MaxAppends = 3
  MaxSeals = 1
  MaxSegments = 3
CHECK_DEADLOCK FALSE
INVARIANTS AckedReadable
