\* Two requests at a time, two instances, two runners, every failure, one restart.
CONSTANTS
  h1 = h1
  h2 = h2
  i1 = i1
  i2 = i2
  Handlers = {h1, h2}
  Instances = {i1, i2}
  NumRunners = 2
  Faults = {"start", "inspect", "stop", "remove", "exit", "rpc", "db", "kill", "sigterm"}
  MaxBoots = 2
SPECIFICATION Spec
SYMMETRY Symmetry
INVARIANTS TypeOK StoppedIsStopped Balanced
PROPERTIES OrphanCauses GhostCauses KeepsLeases
CHECK_DEADLOCK FALSE
