\* Three submissions at a time, two users, one challenge, two flags.
CONSTANTS
  h1 = h1
  h2 = h2
  h3 = h3
  u1 = u1
  u2 = u2
  c1 = c1
  f1 = f1
  f2 = f2
  Handlers = {h1, h2, h3}
  Users = {u1, u2}
  Challenges = {c1}
  Flags = {f1, f2}
  MaxRows = 4
  Faults = {"db"}
SPECIFICATION Spec
SYMMETRY Symmetry
INVARIANTS TypeOK LateNeverStored NoDanglingRow
PROPERTY SolvedForGood
CHECK_DEADLOCK FALSE
