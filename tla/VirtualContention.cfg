SPECIFICATION Spec
CONSTANTS
  NoEntry = NoEntry
  Task = {a1, a2, z1, r1}
  Appenders = {a1, a2}
  Sealers = {z1}
  Readers = {r1}
  Trimmers = {}
  MaxAppends = 2
  MaxSeals = 1
  MaxSegments = 3
INVARIANTS LogletsBacked
