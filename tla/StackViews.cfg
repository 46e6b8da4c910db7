SPECIFICATION Spec
CONSTANTS
  Server = {s1, s2}
  Payload = {x, bad}
  Rejected = {bad}
  Lock = {TRUE, FALSE}
  Stacks <- AllStacks
  MaxLog = 4
  MaxOutbox = 2
  MaxRestarts = 1
SYMMETRY Symmetry
INVARIANTS TypeOK AppliedAsProposed ViewsAreCurrent HeadersNeverAhead
