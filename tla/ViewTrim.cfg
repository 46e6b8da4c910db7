SPECIFICATION Spec
CONSTANTS
  Server = {s1, s2}
  Payload = {x}
  Rejected = {}
  Lock = {TRUE}
  Stacks <- ViewsOnly
  MaxLog = 3
  MaxOutbox = 1
  MaxRestarts = 0
SYMMETRY Symmetry
INVARIANTS TrimPrefixIsSafe
