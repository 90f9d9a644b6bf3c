\* What a restart leaves in the row: one request at a time, no failure.
CONSTANTS
  h1 = h1
  p1 = p1
  i1 = i1
  i2 = i2
  a1 = a1
  a2 = a2
  Handlers = {h1}
  Pairs = {p1}
  Ids = {i1, i2}
  Addresses = {a1, a2}
  Faults = {"exit"}
SPECIFICATION MCSpec
INVARIANT SameAsManager
CHECK_DEADLOCK FALSE
