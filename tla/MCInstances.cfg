\* Two requests at a time, two pairs, two instances, every failure; or calm,
\* with three instances.
CONSTANTS
  h1 = h1
  h2 = h2
  p1 = p1
  p2 = p2
  i1 = i1
  i2 = i2
  i3 = i3
  a1 = a1
  a2 = a2
  Handlers = {h1, h2}
  Pairs = {p1, p2}
  Ids = {i1, i2, i3}
  Addresses = {a1, a2}
  Faults = {"db", "start", "save", "rpc", "destroy", "inspect", "odd", "exit", "kill"}
SPECIFICATION MCSpec
SYMMETRY Symmetry
INVARIANTS TypeOK OwnInstancesOnly OneRowWhenCalm
PROPERTY StrandedCauses
CHECK_DEADLOCK FALSE
