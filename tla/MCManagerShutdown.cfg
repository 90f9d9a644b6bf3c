\* Does a shutdown end when an instance is running?
CONSTANTS
  h1 = h1
  i1 = i1
  Handlers = {h1}
  Instances = {i1}
  NumRunners = 1
  Faults = {"sigterm"}
  MaxBoots = 1
SPECIFICATION FairSpec
PROPERTY ShutdownCompletes
CHECK_DEADLOCK FALSE
